---- MODULE Spec2Model ----
(***************************************************************************)
(* LiveTranslationService (src/unnamed/part_005): the session lifecycle    *)
(* (start / stop / transport callbacks), the capture callback with its     *)
(* pre-session audio buffer, and the caption reconciler (handleMessage).   *)
(*                                                                         *)
(* JavaScript runs handlers to completion on one event loop, so every      *)
(* action below is one handler or one continuation of an async function    *)
(* between two awaits.  The browser (devices, AudioContext, worklet        *)
(* loader) and the transport (the live session of the backend SDK) are     *)
(* the environment: their completions and callbacks are actions that may   *)
(* fire whenever the corresponding request is outstanding.                 *)
(*                                                                         *)
(* TTSService (src/services/tts/TTSService.ts), the speech queue fed with  *)
(* finalized captions, is a second object with its own state; the two      *)
(* objects share no field, so the actions of one leave the other's         *)
(* variables unchanged.                                                    *)
(***************************************************************************)
EXTENDS Integers, Sequences, FiniteSets, TLC

(* ------------------------------ bounds --------------------------------- *)
\* start() invocations that pass the `active` guard (ids 1..MaxCalls)
MaxCalls == 2
\* stop() invocations
MaxStops == 2
\* frames delivered by the capture node in the lifecycle specification
MaxFrames == 2
\* frames delivered by the capture node in the audio specification
AudioMaxFrames == 12
\* start() / stop() invocations in the audio specification
AudioCalls == 1
AudioStops == 1
\* start() / stop() invocations and frames in the failure specification
ErrCalls == 1
ErrStops == 1
ErrFrames == 1
\* start() / stop() invocations and frames in the stop specification
StopCalls == 1
StopStops == 2
StopFrames == 1
\* start() / stop() invocations in the language specification
LangCalls == 1
LangStops == 1
\* processQueue() invocations alive at the same time
MaxLoops == 2
\* queueText() calls in the stop-and-restart specification
LoopTexts == 3
\* queueText() calls and clock ticks in the playback-order specification
PlayTexts == 4
PlayTicks == 2
\* queueText() calls and clock ticks in the overflow specification
CapTexts == 7
CapTicks == 4
\* queueText() calls and clock ticks in the coalescing specification
CoalesceTexts == 4
CoalesceTicks == 2
\* queueText() calls in the controls specification
OpenCalls == 1
OpenFrames == 6
GuardCalls == 1
GuardStops == 1
GuardFrames == 2
GuardIgnored == 1
CtlTexts == 2
FailTexts == 3
MaxSamples == 5
MaxPick == 3
StatusTexts == 3
MaxCaptions == 3
ProgressTexts == 4
CaptionTicks == 2

(* ------------------------- program constants --------------------------- *)
\* private maxBufferSize = 10
maxBufferSize == 10
\* a field initialised with `null`
NULL == 0

Calls == 1..MaxCalls

DISCONNECTED == "DISCONNECTED"
CONNECTING == "CONNECTING"
CONNECTED == "CONNECTED"
ERROR == "ERROR"
\* no onStateChange call has been made yet
NoState == "none"
\* the optional `error` argument of onStateChange, when omitted
Undefined == <<"undefined">>

VARIABLES
  \* fields of LiveTranslationService
  inputAudioContext, mediaStream, audioWorkletNode, source, processor,
  session, active, audioStreamingStarted, sessionReady, audioBuffer,
  useAudioWorklet, languageConfig, audioSource, currentTranscription,
  \* the suspended start() invocations and worklet loads
  pc, reqSource, pendingLoads,
  \* the environment: platform capability, transports, device streams
  platformWorklet, tr, instr, openStreams, sent, nextFrame,
  \* what the three callbacks last delivered
  lastState, prevState, lastError, lastVolume, emitted,
  \* history: the last two server messages handled, each with the in-progress
  \* text before and after it
  handled,
  \* history: calls made, frames pushed into the buffer since it was reset,
  \* the state last delivered when setLanguageConfig() was last called
  nStarts, nStops, stopped, pushed, configSetWhile

fieldVars == <<inputAudioContext, mediaStream, audioWorkletNode, source,
               processor, session, active, audioStreamingStarted,
               sessionReady, audioBuffer, useAudioWorklet, languageConfig,
               audioSource, currentTranscription>>
ctlVars == <<pc, reqSource, pendingLoads>>
envVars == <<platformWorklet, tr, instr, openStreams, sent, nextFrame>>
obsVars == <<lastState, prevState, lastError, lastVolume, emitted, handled>>
callVars == <<nStarts, nStops, stopped, pushed>>
histVars == <<nStarts, nStops, stopped, pushed, configSetWhile>>
liveVars == <<fieldVars, ctlVars, envVars, obsVars, histVars>>

VARIABLES
  \* fields of TTSService; seg[id] is the AudioSegment object with that id,
  \* with two history fields: when it was created and the statuses written
  \* to it (trail)
  queue, seg, audioContext, currentSource, isProcessing, isPaused, ttsState,
  prefetchPromise, prefetchedId,
  \* the suspended queueText() and resume() invocations, the frames of the
  \* processQueue() invocations
  pendingTexts, pendingResumes, loopPc, loopSeg, loopAwait,
  \* the environment: the playback context, the generateSpeech() calls, the
  \* buffer sources, Date.now()
  contextState, synth, sources, now,
  \* history: queueText() calls made, what the last one did, the segments
  \* whose playback was started, the segments onError was called for,
  \* whether stop() returned with no queueText() call since
  nTexts, lastQueued, played, errors, stopReturned

ttsVars == <<queue, seg, audioContext, currentSource, isProcessing, isPaused,
             ttsState, prefetchPromise, prefetchedId, pendingTexts,
             pendingResumes, loopPc, loopSeg, loopAwait, contextState, synth,
             sources, now, nTexts, lastQueued, played, errors,
             stopReturned>>

VARIABLES
  \* the sample rate start() read from its context, and the rate at which
  \* the platform runs an input context (16000 when it honours the request)
  inputSampleRate, platformRate,
  \* a frame of float samples handed to a converter, and what came out
  pcmIn, pcmOut

rateVars == <<inputSampleRate, platformRate>>
pcmVars == <<pcmIn, pcmOut>>
audioVars == <<rateVars, pcmVars>>

VARIABLE
  \* history: the start() calls that returned at the `active` guard
  nIgnored

VARIABLE
  \* the caller (App): the finalized captions it holds
  captions

appVars == <<captions>>
vars == <<liveVars, ttsVars, audioVars, nIgnored, appVars>>

(* ------------------------------ texts ---------------------------------- *)
\* A string is a sequence of tokens (characters or words); "" is <<>>.
RECURSIVE Join(_)
Join(ss) == IF ss = <<>> THEN <<>> ELSE Head(ss) \o Join(Tail(ss))

\* String.prototype.includes
Includes(s, needle) ==
  \E i \in 0..(Len(s) - Len(needle)) :
     \A k \in 1..Len(needle) : s[i + k] = needle[k]

IsSpace(ch) == ch = " "

\* String.prototype.trim
RECURSIVE TrimLeft(_)
TrimLeft(s) == IF s # <<>> /\ IsSpace(Head(s)) THEN TrimLeft(Tail(s)) ELSE s
RECURSIVE TrimRight(_)
TrimRight(s) ==
  IF s # <<>> /\ IsSpace(s[Len(s)]) THEN TrimRight(SubSeq(s, 1, Len(s) - 1)) ELSE s
Trim(s) == TrimRight(TrimLeft(s))

\* the last n elements of a sequence
LastN(s, n) == IF Len(s) <= n THEN s ELSE SubSeq(s, Len(s) - n + 1, Len(s))

(* ------------------------- language config ----------------------------- *)
\* SUPPORTED_LANGUAGES (the entries the model uses)
SupportedCodes == {"auto", "en", "vi", "es"}
LanguageName(code) ==
  CASE code = "auto" -> "Auto Detect"
    [] code = "en" -> "English"
    [] code = "vi" -> "Vietnamese"
    [] code = "es" -> "Spanish"
    [] OTHER -> code

DefaultLanguageConfig == [sourceLanguage |-> "vi", targetLanguage |-> "en"]

\* generateSystemInstruction(): which of the three templates, and the names
\* substituted into it
GenerateSystemInstruction(cfg) ==
  LET sourceName == IF cfg.sourceLanguage = "auto" THEN "any language"
                    ELSE LanguageName(cfg.sourceLanguage)
      targetName == LanguageName(cfg.targetLanguage)
  IN  IF cfg.sourceLanguage = cfg.targetLanguage
        THEN [template |-> "transcribe", source |-> "", target |-> ""]
      ELSE IF cfg.sourceLanguage = "auto"
        THEN [template |-> "detect", source |-> "", target |-> targetName]
      ELSE [template |-> "translate", source |-> sourceName, target |-> targetName]

NoInstruction == [template |-> "none", source |-> "", target |-> ""]

(* ------------------------------ errors --------------------------------- *)
MsgNoAudioTrack == <<"No", "audio", "track", "found.", "Make", "sure">>
MsgMediaDevices == <<"Media", "devices", "not", "supported">>
MsgNullContext == <<"Cannot", "read", "properties", "of", "null">>
MsgModelNotFound == <<"models/x", "is", "not", "found">>
Msg404 == <<"404">>
MsgNetwork == <<"network", "down">>

Err(name, message) == [name |-> name, message |-> message]
ErrNoAudioTrack == Err("Error", MsgNoAudioTrack)
ErrMediaDevices == Err("Error", MsgMediaDevices)
ErrNullContext == Err("TypeError", MsgNullContext)

\* `x || fallback` on a string
OrElse(s, fallback) == IF s = <<>> \/ s = Undefined THEN fallback ELSE s

\* the catch block of start()
FriendlyError(error, src) ==
  IF error.name = "NotAllowedError"
    THEN (IF src = "system"
            THEN <<"Screen", "share", "was", "cancelled", "or", "denied.">>
            ELSE <<"Microphone", "permission", "denied.">>)
  ELSE IF error.name = "NotFoundError"
    THEN <<"No", "audio", "input", "found.">>
  ELSE IF Includes(error.message, <<"No", "audio", "track">>)
    THEN <<"No", "audio", "selected.">>
  ELSE IF Includes(error.message, <<"not", "found">>) \/ Includes(error.message, <<"404">>)
    THEN <<"Model", "not", "available.">>
  ELSE OrElse(error.message, <<"Unable", "to", "start", "translation.">>)

\* the onerror callback's message
ConnectionErrorMessage(error) == OrElse(error.message, <<"Connection", "error">>)

(* ---------------------------- callbacks -------------------------------- *)
\* onStateChange(state, error?)
EmitState(state, error) ==
  /\ prevState' = lastState
  /\ lastState' = state
  /\ lastError' = error

(* ----------------------------- cleanup --------------------------------- *)
\* mediaStream.getTracks().forEach(track => track.stop())
StoppedTracks(stream, open) == IF stream # NULL THEN open \ {stream} ELSE open

\* session.close(): a transport that is connecting or open starts closing
ClosedSession(s, transports) ==
  IF s # NULL /\ transports[s] \in {"connecting", "open"}
    THEN [transports EXCEPT ![s] = "closing"]
    ELSE transports

\* cleanup() without its final onVolume(0)
CleanupKeepsVolume(transports, open) ==
  /\ active' = FALSE
  /\ audioStreamingStarted' = FALSE
  /\ sessionReady' = FALSE
  /\ audioBuffer' = <<>>
  /\ pushed' = <<>>
  /\ audioWorkletNode' = NULL
  /\ source' = NULL
  /\ processor' = NULL
  /\ openStreams' = StoppedTracks(mediaStream, open)
  /\ mediaStream' = NULL
  /\ inputAudioContext' = NULL
  /\ tr' = ClosedSession(session, transports)
  /\ session' = NULL
  /\ currentTranscription' = <<>>
  /\ UNCHANGED lastVolume

\* cleanup(), applied on top of the transports and streams the calling
\* handler has already changed
Cleanup(transports, open) ==
  /\ active' = FALSE
  /\ audioStreamingStarted' = FALSE
  /\ sessionReady' = FALSE
  /\ audioBuffer' = <<>>
  /\ pushed' = <<>>
  /\ audioWorkletNode' = NULL
  /\ source' = NULL
  /\ processor' = NULL
  /\ openStreams' = StoppedTracks(mediaStream, open)
  /\ mediaStream' = NULL
  /\ inputAudioContext' = NULL
  /\ tr' = ClosedSession(session, transports)
  /\ session' = NULL
  /\ currentTranscription' = <<>>
  /\ lastVolume' = 0

\* what cleanup() leaves alone
CleanupFrame ==
  UNCHANGED <<languageConfig, audioSource, reqSource, pendingLoads,
              platformWorklet, instr, sent, nextFrame, emitted, handled,
              configSetWhile>>

(* ---------------------- TTSService: constants ------------------------- *)
\* this.maxQueueSize = config.maxQueueSize || 5
maxQueueSize == 5
\* this.coalesceWindowMs = config.coalesceWindowMs || 500
coalesceWindowMs == 500
\* the frames of the processQueue() invocations
Loops == 1..MaxLoops
\* what the last queueText() did, before any queueText() has resumed
NoQueued ==
  [priority |-> "normal", merged |-> FALSE, last |-> NULL,
   lastStatus |-> "none", lastAge |-> 0]

\* the TTSService after construction
TtsInit ==
  /\ queue = <<>>
  /\ seg = <<>>
  /\ audioContext = NULL
  /\ currentSource = NULL
  /\ isProcessing = FALSE
  /\ isPaused = FALSE
  /\ ttsState = "idle"
  /\ prefetchPromise = NULL
  /\ prefetchedId = NULL
  /\ pendingTexts = <<>>
  /\ pendingResumes = 0
  /\ loopPc = [l \in Loops |-> "idle"]
  /\ loopSeg = [l \in Loops |-> NULL]
  /\ loopAwait = [l \in Loops |-> NULL]
  /\ contextState = "none"
  /\ synth = <<>>
  /\ sources = <<>>
  /\ now = 0
  /\ nTexts = 0
  /\ lastQueued = NoQueued
  /\ played = <<>>
  /\ errors = <<>>
  /\ stopReturned = FALSE

(* ------------------------------- Init ---------------------------------- *)
\* the rate the service asks for and labels its payloads with, and the rates
\* a platform may run the input context at: the requested one, or its default
\* when `new AudioContext({ sampleRate: 16000 })` throws
targetSampleRate == 16000
defaultSampleRate == 48000
ContextRates == {targetSampleRate, defaultSampleRate}

\* the caller after its first render: useState<Caption[]>([])
AppInit == captions = <<>>

\* no frame has been converted
PcmInit == pcmIn = <<>> /\ pcmOut = [by |-> "none", samples |-> <<>>]

\* the LiveTranslationService after construction
LiveInit ==
  /\ inputAudioContext = NULL
  /\ mediaStream = NULL
  /\ audioWorkletNode = NULL
  /\ source = NULL
  /\ processor = NULL
  /\ session = NULL
  /\ active = FALSE
  /\ audioStreamingStarted = FALSE
  /\ sessionReady = FALSE
  /\ audioBuffer = <<>>
  /\ useAudioWorklet = TRUE
  /\ languageConfig = DefaultLanguageConfig
  /\ audioSource = "microphone"
  /\ currentTranscription = <<>>
  /\ pc = [c \in Calls |-> "idle"]
  /\ reqSource = [c \in Calls |-> "microphone"]
  /\ pendingLoads = {}
  /\ platformWorklet \in BOOLEAN
  /\ tr = [c \in Calls |-> "none"]
  /\ instr = [c \in Calls |-> NoInstruction]
  /\ openStreams = {}
  /\ sent = [c \in Calls |-> <<>>]
  /\ nextFrame = 0
  /\ lastState = NoState
  /\ prevState = NoState
  /\ lastError = Undefined
  /\ lastVolume = 0
  /\ emitted = <<>>
  /\ handled = <<>>
  /\ nStarts = 0
  /\ nStops = 0
  /\ stopped = FALSE
  /\ pushed = <<>>
  /\ configSetWhile = NoState
  /\ inputSampleRate = targetSampleRate
  /\ nIgnored = 0

Init ==
  /\ LiveInit
  /\ TtsInit
  /\ platformRate \in ContextRates
  /\ PcmInit
  /\ AppInit

\* a platform that runs the input context at the requested 16 kHz
LiveStart == Init /\ platformRate = targetSampleRate

(* --------------------------- start() ----------------------------------- *)
\* start(), up to its first await (AudioContext.resume)
Start(limit) ==
  /\ ~active
  /\ nStarts < limit
  /\ LET c == nStarts + 1
     IN  /\ nStarts' = c
         /\ EmitState(CONNECTING, Undefined)
         /\ audioStreamingStarted' = FALSE
         /\ sessionReady' = FALSE
         /\ audioBuffer' = <<>>
         /\ pushed' = <<>>
         /\ inputAudioContext' = c
         /\ pc' = [pc EXCEPT ![c] = "resume"]
         /\ stopped' = FALSE
  /\ UNCHANGED <<mediaStream, audioWorkletNode, source, processor, session,
                 active, useAudioWorklet, languageConfig, audioSource,
                 currentTranscription, reqSource, pendingLoads, envVars,
                 lastVolume, emitted, handled, nStops, configSetWhile>>
  /\ UNCHANGED <<ttsVars, audioVars, nIgnored, appVars>>

\* a start() that does not look at `active` and begins again
StartWhileActiveRestarts(limit) ==
  /\ active
  /\ nIgnored < limit
  /\ nIgnored' = nIgnored + 1
  /\ EmitState(CONNECTING, Undefined)
  /\ audioStreamingStarted' = FALSE
  /\ sessionReady' = FALSE
  /\ audioBuffer' = <<>>
  /\ UNCHANGED <<inputAudioContext, mediaStream, audioWorkletNode, source,
                 processor, session, active, useAudioWorklet, languageConfig,
                 audioSource, currentTranscription, ctlVars, envVars,
                 lastVolume, emitted, handled, histVars>>
  /\ UNCHANGED <<ttsVars, audioVars, appVars>>

\* start() while active: `if (this.active) return;`
StartWhileActive(limit) ==
  /\ active
  /\ nIgnored < limit
  /\ nIgnored' = nIgnored + 1
  /\ UNCHANGED <<liveVars, ttsVars, audioVars, appVars>>

\* the catch block of start(): ERROR with the friendly message, then cleanup()
Fail(c, error, transports, open, worklet) ==
  /\ EmitState(ERROR, FriendlyError(error, audioSource))
  /\ Cleanup(transports, open)
  /\ CleanupFrame
  /\ useAudioWorklet' = worklet
  /\ pc' = [pc EXCEPT ![c] = "done"]
  /\ UNCHANGED <<nStarts, nStops, stopped>>

\* start() resumes after `await inputAudioContext.resume()` and runs to the
\* await of getAudioStream(); reading `.sampleRate` of a context that
\* cleanup() has set to null throws into the catch block
ResumeDone(c) ==
  /\ pc[c] = "resume"
  /\ \/ /\ inputAudioContext = NULL
        /\ Fail(c, ErrNullContext, tr, openStreams, useAudioWorklet)
        /\ UNCHANGED inputSampleRate
     \/ /\ inputAudioContext # NULL
        /\ inputSampleRate' = platformRate
        /\ useAudioWorklet' = platformWorklet
        /\ reqSource' = [reqSource EXCEPT ![c] = audioSource]
        /\ pc' = [pc EXCEPT ![c] = "getStream"]
        /\ UNCHANGED <<inputAudioContext, mediaStream, audioWorkletNode,
                       source, processor, session, active,
                       audioStreamingStarted, sessionReady, audioBuffer,
                       languageConfig, audioSource, currentTranscription,
                       pendingLoads, envVars, obsVars, histVars>>
  /\ UNCHANGED <<ttsVars, platformRate, pcmVars, nIgnored, appVars>>

\* `if (!navigator?.mediaDevices) throw ...`
ResumeNoMediaDevices(c) ==
  /\ pc[c] = "resume"
  /\ inputAudioContext # NULL
  /\ Fail(c, ErrMediaDevices, tr, openStreams, platformWorklet)
  /\ UNCHANGED <<ttsVars, audioVars, nIgnored, appVars>>

\* getAudioStream() resolves: the stream is stored, active is set, and
\* live.connect() is called with the instruction of the current config
GetStreamDone(c) ==
  /\ pc[c] = "getStream"
  /\ mediaStream' = c
  /\ openStreams' = openStreams \cup {c}
  /\ active' = TRUE
  /\ instr' = [instr EXCEPT ![c] = GenerateSystemInstruction(languageConfig)]
  /\ tr' = [tr EXCEPT ![c] = "connecting"]
  /\ pc' = [pc EXCEPT ![c] = "connect"]
  /\ UNCHANGED <<inputAudioContext, audioWorkletNode, source, processor,
                 session, audioStreamingStarted, sessionReady, audioBuffer,
                 useAudioWorklet, languageConfig, audioSource,
                 currentTranscription, reqSource, pendingLoads,
                 platformWorklet, sent, nextFrame, obsVars, histVars>>
  /\ UNCHANGED <<ttsVars, audioVars, nIgnored, appVars>>

\* getDisplayMedia() resolved with no audio track: getAudioStream() stops the
\* tracks it got and throws
GetStreamNoAudioTrack(c) ==
  /\ pc[c] = "getStream"
  /\ reqSource[c] = "system"
  /\ Fail(c, ErrNoAudioTrack, tr, openStreams, useAudioWorklet)
  /\ UNCHANGED <<ttsVars, audioVars, nIgnored, appVars>>

\* getUserMedia() / getDisplayMedia() rejects
GetStreamFail(c, error) ==
  /\ pc[c] = "getStream"
  /\ Fail(c, error, tr, openStreams, useAudioWorklet)
  /\ UNCHANGED <<ttsVars, audioVars, nIgnored, appVars>>

\* `this.session = await this.ai.live.connect(...)` resolves
ConnectResolve(c) ==
  /\ pc[c] = "connect"
  /\ tr[c] \in {"connecting", "open"}
  /\ session' = c
  /\ pc' = [pc EXCEPT ![c] = "done"]
  /\ UNCHANGED <<inputAudioContext, mediaStream, audioWorkletNode, source,
                 processor, active, audioStreamingStarted, sessionReady,
                 audioBuffer, useAudioWorklet, languageConfig, audioSource,
                 currentTranscription, reqSource, pendingLoads, envVars,
                 obsVars, histVars>>
  /\ UNCHANGED <<ttsVars, audioVars, nIgnored, appVars>>

\* live.connect() rejects: the transport never opened
ConnectReject(c, error) ==
  /\ pc[c] = "connect"
  /\ tr[c] = "connecting"
  /\ Fail(c, error, [tr EXCEPT ![c] = "closed"], openStreams, useAudioWorklet)
  /\ UNCHANGED <<ttsVars, audioVars, nIgnored, appVars>>

(* ---------------------- sending and buffering -------------------------- *)
\* sendAudioChunk(): session.sendRealtimeInput; a transport that is not open
\* delivers nothing (the exception is caught and logged)
SendAudioChunk(s, frame, transports, log) ==
  IF s # NULL /\ transports[s] = "open"
    THEN [log EXCEPT ![s] = Append(@, frame)]
    ELSE log

RECURSIVE SendAll(_, _, _, _)
SendAll(s, frames, transports, log) ==
  IF frames = <<>> THEN log
  ELSE SendAll(s, Tail(frames), transports,
               SendAudioChunk(s, Head(frames), transports, log))

\* flushAudioBuffer(): does it send (all three guards pass)?
Flushes(s, ready, buffer) == s # NULL /\ ready /\ buffer # <<>>

\* push, then pop() instead of shift(): the newest chunk is the one dropped
PushDropNewest(buffer, frame) ==
  LET b == Append(buffer, frame)
  IN  IF Len(b) > maxBufferSize THEN SubSeq(b, 1, Len(b) - 1) ELSE b

\* audioBuffer.push(samples); if (length > maxBufferSize) audioBuffer.shift()
PushBounded(buffer, frame) ==
  LET b == Append(buffer, frame)
  IN  IF Len(b) > maxBufferSize THEN Tail(b) ELSE b

\* the send-or-buffer test of the capture callbacks
SendsLive(ready, s) == ready /\ s # NULL

(* ------------------------ transport callbacks -------------------------- *)
\* startAudioStreaming() passes its two guards
CanStream == ~audioStreamingStarted /\ inputAudioContext # NULL /\ mediaStream # NULL

\* callbacks.onopen
TransportOpen(c) ==
  /\ tr[c] = "connecting"
  /\ LET tr1 == [tr EXCEPT ![c] = "open"]
         flush == Flushes(session, TRUE, audioBuffer)
     IN  /\ tr' = tr1
         /\ EmitState(CONNECTED, Undefined)
         /\ sessionReady' = TRUE
         \* startAudioStreaming(), to the await in startWithAudioWorklet()
         /\ audioStreamingStarted' = (audioStreamingStarted \/ CanStream)
         /\ source' = IF CanStream THEN inputAudioContext ELSE source
         /\ pendingLoads' = IF CanStream /\ useAudioWorklet
                              THEN pendingLoads \cup {inputAudioContext}
                              ELSE pendingLoads
         /\ processor' = IF CanStream /\ ~useAudioWorklet
                           THEN inputAudioContext ELSE processor
         \* flushAudioBuffer()
         /\ sent' = IF flush THEN SendAll(session, audioBuffer, tr1, sent) ELSE sent
         /\ audioBuffer' = IF flush THEN <<>> ELSE audioBuffer
         /\ pushed' = IF flush THEN <<>> ELSE pushed
  /\ UNCHANGED <<inputAudioContext, mediaStream, audioWorkletNode, session,
                 active, useAudioWorklet, languageConfig, audioSource,
                 currentTranscription, pc, reqSource, platformWorklet, instr,
                 openStreams, nextFrame, lastVolume, emitted, handled, nStarts, nStops,
                 stopped, configSetWhile>>
  /\ UNCHANGED <<ttsVars, audioVars, nIgnored, appVars>>

\* startWithScriptProcessor() as the fallback of startWithAudioWorklet()
FallbackProcessor == IF inputAudioContext # NULL /\ source # NULL
                       THEN inputAudioContext ELSE processor

\* audioWorklet.addModule() resolves for context x: the node is created on
\* the current context and connected; if the context was replaced or
\* released meanwhile the constructor throws and the fallback runs
WorkletLoaded(x) ==
  /\ x \in pendingLoads
  /\ pendingLoads' = pendingLoads \ {x}
  /\ IF inputAudioContext = x
       THEN /\ audioWorkletNode' = x
            /\ UNCHANGED <<useAudioWorklet, processor>>
       ELSE /\ useAudioWorklet' = FALSE
            /\ processor' = FallbackProcessor
            /\ UNCHANGED audioWorkletNode
  /\ UNCHANGED <<inputAudioContext, mediaStream, source, session, active,
                 audioStreamingStarted, sessionReady, audioBuffer,
                 languageConfig, audioSource, currentTranscription, pc,
                 reqSource, envVars, obsVars, histVars>>
  /\ UNCHANGED <<ttsVars, audioVars, nIgnored, appVars>>

\* audioWorklet.addModule() rejects: fall back to the ScriptProcessor
WorkletLoadFail(x) ==
  /\ x \in pendingLoads
  /\ pendingLoads' = pendingLoads \ {x}
  /\ useAudioWorklet' = FALSE
  /\ processor' = FallbackProcessor
  /\ UNCHANGED <<inputAudioContext, mediaStream, audioWorkletNode, source,
                 session, active, audioStreamingStarted, sessionReady,
                 audioBuffer, languageConfig, audioSource,
                 currentTranscription, pc, reqSource, envVars, obsVars,
                 histVars>>
  /\ UNCHANGED <<ttsVars, audioVars, nIgnored, appVars>>

\* port.onmessage (type 'audio') / onaudioprocess of the attached capture node
CaptureFrame(limit, volume) ==
  /\ audioWorkletNode # NULL \/ processor # NULL
  /\ active
  /\ nextFrame < limit
  /\ LET frame == nextFrame + 1
     IN  /\ nextFrame' = frame
         /\ lastVolume' = volume
         /\ IF SendsLive(sessionReady, session)
              THEN /\ sent' = SendAudioChunk(session, frame, tr, sent)
                   /\ UNCHANGED <<audioBuffer, pushed>>
              ELSE /\ audioBuffer' = PushBounded(audioBuffer, frame)
                   /\ pushed' = Append(pushed, frame)
                   /\ UNCHANGED sent
  /\ UNCHANGED <<inputAudioContext, mediaStream, audioWorkletNode, source,
                 processor, session, active, audioStreamingStarted,
                 sessionReady, useAudioWorklet, languageConfig, audioSource,
                 currentTranscription, ctlVars, platformWorklet, tr, instr,
                 openStreams, lastState, prevState, lastError, emitted, handled,
                 nStarts, nStops, stopped, configSetWhile>>
  /\ UNCHANGED <<ttsVars, audioVars, nIgnored, appVars>>

\* an onerror callback that reports ERROR and forgets cleanup()
TransportErrorNoCleanup(c, error) ==
  /\ tr[c] \in {"connecting", "open"}
  /\ EmitState(ERROR, ConnectionErrorMessage(error))
  /\ tr' = [tr EXCEPT ![c] = "closing"]
  /\ UNCHANGED <<fieldVars, ctlVars, platformWorklet, instr, openStreams,
                 sent, nextFrame, lastVolume, emitted, handled, histVars>>
  /\ UNCHANGED <<ttsVars, audioVars, nIgnored, appVars>>

\* callbacks.onerror
TransportError(c, error) ==
  /\ tr[c] \in {"connecting", "open"}
  /\ EmitState(ERROR, ConnectionErrorMessage(error))
  /\ Cleanup([tr EXCEPT ![c] = "closing"], openStreams)
  /\ CleanupFrame
  /\ UNCHANGED <<useAudioWorklet, pc, nStarts, nStops, stopped>>
  /\ UNCHANGED <<ttsVars, audioVars, nIgnored, appVars>>

\* callbacks.onclose: the server closed the transport, or the close that
\* session.close() or an error started has completed
TransportClose(c) ==
  /\ tr[c] \in {"open", "closing"}
  /\ IF active
       THEN /\ EmitState(DISCONNECTED, Undefined)
            /\ Cleanup([tr EXCEPT ![c] = "closed"], openStreams)
            /\ CleanupFrame
            /\ UNCHANGED <<useAudioWorklet, pc, nStarts, nStops, stopped>>
       ELSE /\ tr' = [tr EXCEPT ![c] = "closed"]
            /\ UNCHANGED <<fieldVars, ctlVars, platformWorklet, instr,
                           openStreams, sent, nextFrame, obsVars, histVars>>
  /\ UNCHANGED <<ttsVars, audioVars, nIgnored, appVars>>

(* ------------------------------ stop() --------------------------------- *)
Stop(limit) ==
  /\ nStops < limit
  /\ nStops' = nStops + 1
  /\ Cleanup(tr, openStreams)
  /\ CleanupFrame
  /\ EmitState(DISCONNECTED, Undefined)
  /\ stopped' = TRUE
  /\ UNCHANGED <<useAudioWorklet, pc, nStarts>>
  /\ UNCHANGED <<ttsVars, audioVars, nIgnored, appVars>>

(* ------------------------------ setters -------------------------------- *)
\* a setter that also rewrites the instruction of the session in use
SetLanguageConfigRebinds(config) ==
  /\ languageConfig' = config
  /\ configSetWhile' = lastState
  /\ instr' = IF session # NULL
               THEN [instr EXCEPT ![session] = GenerateSystemInstruction(config)]
               ELSE instr
  /\ UNCHANGED <<inputAudioContext, mediaStream, audioWorkletNode, source,
                 processor, session, active, audioStreamingStarted,
                 sessionReady, audioBuffer, useAudioWorklet, audioSource,
                 currentTranscription, ctlVars, platformWorklet, tr,
                 openStreams, sent, nextFrame, obsVars, callVars>>
  /\ UNCHANGED <<ttsVars, audioVars, nIgnored, appVars>>

SetLanguageConfig(config) ==
  /\ languageConfig' = config
  /\ configSetWhile' = lastState
  /\ UNCHANGED <<inputAudioContext, mediaStream, audioWorkletNode, source,
                 processor, session, active, audioStreamingStarted,
                 sessionReady, audioBuffer, useAudioWorklet, audioSource,
                 currentTranscription, ctlVars, envVars, obsVars, callVars>>
  /\ UNCHANGED <<ttsVars, audioVars, nIgnored, appVars>>

SetAudioSource(src) ==
  /\ audioSource' = src
  /\ UNCHANGED <<inputAudioContext, mediaStream, audioWorkletNode, source,
                 processor, session, active, audioStreamingStarted,
                 sessionReady, audioBuffer, useAudioWorklet, languageConfig,
                 currentTranscription, ctlVars, envVars, obsVars, histVars>>
  /\ UNCHANGED <<ttsVars, audioVars, nIgnored, appVars>>

(* --------------------------- handleMessage ----------------------------- *)
\* A server message: text, serverContent.modelTurn.parts[].text,
\* serverContent.outputTranscription.text (<<>> when absent or empty),
\* serverContent.turnComplete, serverContent.interrupted
Message(text, parts, transcript, turnComplete, interrupted) ==
  [text |-> text, parts |-> parts, transcript |-> transcript,
   turnComplete |-> turnComplete, interrupted |-> interrupted]

\* parts.filter(p => p.text).map(p => p.text).join('')
PartsText(parts) == Join(parts)

\* variants of handleMessage(): one that appends, one that keeps the text
\* after the final caption, one without trim(), one that ignores the
\* interruption, one that stops at the first shape present
HandleMessageAppends(message, current) ==
  LET s0 == [text |-> current, calls |-> <<>>]
      Update(s, t) == IF t # <<>>
                        THEN [text |-> s.text \o t,
                              calls |-> Append(s.calls, <<s.text \o t, FALSE>>)]
                        ELSE s
      s1 == Update(s0, message.text)
      s2 == Update(s1, PartsText(message.parts))
      s3 == Update(s2, message.transcript)
      s4 == IF message.turnComplete /\ Trim(s3.text) # <<>>
              THEN [text |-> <<>>, calls |-> Append(s3.calls, <<s3.text, TRUE>>)]
              ELSE s3
  IN  IF message.interrupted THEN [s4 EXCEPT !.text = <<>>] ELSE s4

HandleMessageKeepsText(message, current) ==
  LET s0 == [text |-> current, calls |-> <<>>]
      Update(s, t) == IF t # <<>>
                        THEN [text |-> t, calls |-> Append(s.calls, <<t, FALSE>>)]
                        ELSE s
      s1 == Update(s0, message.text)
      s2 == Update(s1, PartsText(message.parts))
      s3 == Update(s2, message.transcript)
      s4 == IF message.turnComplete /\ Trim(s3.text) # <<>>
              THEN [text |-> s3.text, calls |-> Append(s3.calls, <<s3.text, TRUE>>)]
              ELSE s3
  IN  IF message.interrupted THEN [s4 EXCEPT !.text = <<>>] ELSE s4

HandleMessageNoTrim(message, current) ==
  LET s0 == [text |-> current, calls |-> <<>>]
      Update(s, t) == IF t # <<>>
                        THEN [text |-> t, calls |-> Append(s.calls, <<t, FALSE>>)]
                        ELSE s
      s1 == Update(s0, message.text)
      s2 == Update(s1, PartsText(message.parts))
      s3 == Update(s2, message.transcript)
      s4 == IF message.turnComplete /\ s3.text # <<>>
              THEN [text |-> <<>>, calls |-> Append(s3.calls, <<s3.text, TRUE>>)]
              ELSE s3
  IN  IF message.interrupted THEN [s4 EXCEPT !.text = <<>>] ELSE s4

HandleMessageKeepsInterrupted(message, current) ==
  LET s0 == [text |-> current, calls |-> <<>>]
      Update(s, t) == IF t # <<>>
                        THEN [text |-> t, calls |-> Append(s.calls, <<t, FALSE>>)]
                        ELSE s
      s1 == Update(s0, message.text)
      s2 == Update(s1, PartsText(message.parts))
      s3 == Update(s2, message.transcript)
  IN  IF message.turnComplete /\ Trim(s3.text) # <<>>
        THEN [text |-> <<>>, calls |-> Append(s3.calls, <<s3.text, TRUE>>)]
        ELSE s3

HandleMessageFirstShape(message, current) ==
  LET s0 == [text |-> current, calls |-> <<>>]
      Update(s, t) == IF t # <<>>
                        THEN [text |-> t, calls |-> Append(s.calls, <<t, FALSE>>)]
                        ELSE s
      s3 == IF message.text # <<>> THEN Update(s0, message.text)
            ELSE IF PartsText(message.parts) # <<>>
              THEN Update(s0, PartsText(message.parts))
            ELSE Update(s0, message.transcript)
      s4 == IF message.turnComplete /\ Trim(s3.text) # <<>>
              THEN [text |-> <<>>, calls |-> Append(s3.calls, <<s3.text, TRUE>>)]
              ELSE s3
  IN  IF message.interrupted THEN [s4 EXCEPT !.text = <<>>] ELSE s4

\* handleMessage(): the in-progress text it leaves and the onTranscription
\* calls <<text, isFinal>> it makes, in order
HandleMessage(message, current) ==
  LET s0 == [text |-> current, calls |-> <<>>]
      Update(s, t) == IF t # <<>>
                        THEN [text |-> t, calls |-> Append(s.calls, <<t, FALSE>>)]
                        ELSE s
      s1 == Update(s0, message.text)
      s2 == Update(s1, PartsText(message.parts))
      s3 == Update(s2, message.transcript)
      s4 == IF message.turnComplete /\ Trim(s3.text) # <<>>
              THEN [text |-> <<>>, calls |-> Append(s3.calls, <<s3.text, TRUE>>)]
              ELSE s3
  IN  IF message.interrupted THEN [s4 EXCEPT !.text = <<>>] ELSE s4

\* callbacks.onmessage
OnMessage(c, message) ==
  /\ tr[c] \in {"open", "closing"}
  /\ LET r == HandleMessage(message, currentTranscription)
     IN  /\ currentTranscription' = r.text
         /\ emitted' = r.calls
         /\ handled' = LastN(Append(handled, [message |-> message,
                                              before |-> currentTranscription,
                                              after |-> r.text]), 2)
  /\ UNCHANGED <<inputAudioContext, mediaStream, audioWorkletNode, source,
                 processor, session, active, audioStreamingStarted,
                 sessionReady, audioBuffer, useAudioWorklet, languageConfig,
                 audioSource, ctlVars, envVars, lastState, prevState,
                 lastError, lastVolume, histVars>>
  /\ UNCHANGED <<ttsVars, audioVars, nIgnored, appVars>>

(* --------------------------- environments ------------------------------ *)
\* what the device request and the transport can fail with
DeviceErrors == {Err("NotAllowedError", <<"Permission", "denied">>)}
ConnectErrors == {Err("Error", MsgNetwork)}
SocketErrors == {Err("Error", <<>>)}
\* the server messages of the lifecycle specification
UpdateA == Message(<<"a">>, <<>>, <<>>, FALSE, FALSE)
LifecycleMessages == {UpdateA}
\* frame loudness delivered to onVolume (RMS * 5, clamped to [0, 1])
Loud == 1

(* ---------------------- lifecycle specification ------------------------ *)
Next ==
  \/ Start(MaxCalls)
  \/ Stop(MaxStops)
  \/ \E c \in Calls : ResumeDone(c)
  \/ \E c \in Calls : GetStreamDone(c)
  \/ \E c \in Calls, e \in DeviceErrors : GetStreamFail(c, e)
  \/ \E c \in Calls : ConnectResolve(c)
  \/ \E c \in Calls, e \in ConnectErrors : ConnectReject(c, e)
  \/ \E c \in Calls : TransportOpen(c)
  \/ \E c \in Calls, e \in SocketErrors : TransportError(c, e)
  \/ \E c \in Calls : TransportClose(c)
  \/ \E c \in Calls, m \in LifecycleMessages : OnMessage(c, m)
  \/ \E x \in Calls : WorkletLoaded(x)
  \/ \E x \in Calls : WorkletLoadFail(x)
  \/ CaptureFrame(MaxFrames, Loud)

Spec == LiveStart /\ [][Next]_vars

(* ------------------------ failure specification ------------------------ *)
\* every category of device and transport failure, both audio sources
AllDeviceErrors ==
  {Err("NotAllowedError", <<"Permission", "denied">>),
   Err("NotFoundError", <<"Requested", "device", "not", "found">>),
   Err("AbortError", <<>>)}
AllConnectErrors ==
  {Err("Error", MsgModelNotFound), Err("Error", Msg404), Err("Error", <<>>)}
AllSocketErrors == {Err("Error", MsgNetwork), Err("Error", <<>>)}
AudioSources == {"microphone", "system"}
Blank == Message(<<" ">>, <<>>, <<>>, FALSE, FALSE)
TurnComplete == Message(<<>>, <<>>, <<>>, TRUE, FALSE)

NextErr ==
  \/ Start(ErrCalls)
  \/ Stop(ErrStops)
  \/ \E src \in AudioSources : SetAudioSource(src)
  \/ \E c \in Calls : ResumeDone(c)
  \/ \E c \in Calls : ResumeNoMediaDevices(c)
  \/ \E c \in Calls : GetStreamDone(c)
  \/ \E c \in Calls : GetStreamNoAudioTrack(c)
  \/ \E c \in Calls, e \in AllDeviceErrors : GetStreamFail(c, e)
  \/ \E c \in Calls : ConnectResolve(c)
  \/ \E c \in Calls, e \in AllConnectErrors : ConnectReject(c, e)
  \/ \E c \in Calls : TransportOpen(c)
  \/ \E c \in Calls, e \in AllSocketErrors : TransportError(c, e)
  \/ \E c \in Calls : TransportClose(c)
  \/ \E x \in Calls : WorkletLoaded(x)
  \/ CaptureFrame(ErrFrames, Loud)

SpecErr == LiveStart /\ [][NextErr]_vars

(* ------------------------- audio specification ------------------------- *)
NextAudio ==
  \/ Start(AudioCalls)
  \/ Stop(AudioStops)
  \/ \E c \in Calls : ResumeDone(c)
  \/ \E c \in Calls : GetStreamDone(c)
  \/ \E c \in Calls : ConnectResolve(c)
  \/ \E c \in Calls : TransportOpen(c)
  \/ \E c \in Calls : TransportClose(c)
  \/ \E x \in Calls : WorkletLoaded(x)
  \/ \E x \in Calls : WorkletLoadFail(x)
  \/ CaptureFrame(AudioMaxFrames, Loud)

SpecAudio == LiveStart /\ [][NextAudio]_vars

(* ------------------------ language specification ----------------------- *)
LanguageConfigs ==
  {DefaultLanguageConfig,
   [sourceLanguage |-> "auto", targetLanguage |-> "en"],
   [sourceLanguage |-> "es", targetLanguage |-> "es"]}

NextLang ==
  \/ Start(LangCalls)
  \/ Stop(LangStops)
  \/ \E cfg \in LanguageConfigs : SetLanguageConfig(cfg)
  \/ \E c \in Calls : ResumeDone(c)
  \/ \E c \in Calls : GetStreamDone(c)
  \/ \E c \in Calls : ConnectResolve(c)
  \/ \E c \in Calls : TransportOpen(c)
  \/ \E c \in Calls : TransportClose(c)
  \/ \E x \in Calls : WorkletLoaded(x)

SpecLang == LiveStart /\ [][NextLang]_vars

(* -------------------------- stop specification ------------------------- *)
NextStop ==
  \/ Start(StopCalls)
  \/ Stop(StopStops)
  \/ \E c \in Calls : ResumeDone(c)
  \/ \E c \in Calls : GetStreamDone(c)
  \/ \E c \in Calls, e \in DeviceErrors : GetStreamFail(c, e)
  \/ \E c \in Calls : ConnectResolve(c)
  \/ \E c \in Calls : TransportOpen(c)
  \/ \E c \in Calls, e \in SocketErrors : TransportError(c, e)
  \/ \E c \in Calls : TransportClose(c)
  \/ \E c \in Calls, m \in LifecycleMessages : OnMessage(c, m)
  \/ \E x \in Calls : WorkletLoaded(x)
  \/ CaptureFrame(StopFrames, Loud)

SpecStop == LiveStart /\ [][NextStop]_vars

(* ------------------------ message specification ----------------------- *)
\* what the server may put into one message: a direct text (absent, "a",
\* or a single blank), content parts (absent, or "b" then an empty part then
\* "c"), an output transcription (absent or "d"), and the two signals
MsgTexts == {<<>>, <<"a">>, <<" ">>}
MsgParts == {<<>>, <<<<"b">>, <<>>, <<"c">>>>}
MsgTranscripts == {<<>>, <<"d">>}
ServerMessages ==
  {Message(t, p, o, tc, i) : t \in MsgTexts, p \in MsgParts,
                             o \in MsgTranscripts, tc \in BOOLEAN,
                             i \in BOOLEAN}

\* a connected session: the state start() reaches through Start, ResumeDone,
\* GetStreamDone, ConnectResolve and TransportOpen on a platform without
\* AudioWorklet; the reconciler's inputs are then drawn from ServerMessages
InitMsg ==
  /\ inputAudioContext = 1
  /\ mediaStream = 1
  /\ audioWorkletNode = NULL
  /\ source = 1
  /\ processor = 1
  /\ session = 1
  /\ active = TRUE
  /\ audioStreamingStarted = TRUE
  /\ sessionReady = TRUE
  /\ audioBuffer = <<>>
  /\ useAudioWorklet = FALSE
  /\ languageConfig = DefaultLanguageConfig
  /\ audioSource = "microphone"
  /\ currentTranscription = <<>>
  /\ pc = [c \in Calls |-> IF c = 1 THEN "done" ELSE "idle"]
  /\ reqSource = [c \in Calls |-> "microphone"]
  /\ pendingLoads = {}
  /\ platformWorklet = FALSE
  /\ tr = [c \in Calls |-> IF c = 1 THEN "open" ELSE "none"]
  /\ instr = [c \in Calls |->
                IF c = 1 THEN GenerateSystemInstruction(DefaultLanguageConfig)
                         ELSE NoInstruction]
  /\ openStreams = {1}
  /\ sent = [c \in Calls |-> <<>>]
  /\ nextFrame = 0
  /\ lastState = CONNECTED
  /\ prevState = CONNECTING
  /\ lastError = Undefined
  /\ lastVolume = 0
  /\ emitted = <<>>
  /\ handled = <<>>
  /\ nStarts = 1
  /\ nStops = 0
  /\ stopped = FALSE
  /\ pushed = <<>>
  /\ configSetWhile = NoState
  /\ TtsInit
  /\ inputSampleRate = targetSampleRate
  /\ platformRate = targetSampleRate
  /\ PcmInit
  /\ AppInit
  /\ nIgnored = 0

NextMsg ==
  \/ \E c \in Calls, m \in ServerMessages : OnMessage(c, m)
  \/ \E c \in Calls : TransportClose(c)

SpecMsg == InitMsg /\ [][NextMsg]_vars

(* ------------------------- open specification -------------------------- *)
\* one start() that nothing interrupts: no stop(), no close, no error.  The
\* promises settle, the transport opens and the capture node delivers its
\* frames: each of these steps is taken if it stays possible.
NextOpen ==
  \/ Start(OpenCalls)
  \/ \E c \in Calls : ResumeDone(c)
  \/ \E c \in Calls : GetStreamDone(c)
  \/ \E c \in Calls : ConnectResolve(c)
  \/ \E c \in Calls : TransportOpen(c)
  \/ \E x \in Calls : WorkletLoaded(x)
  \/ CaptureFrame(OpenFrames, Loud)

FairOpen ==
  /\ \A c \in Calls : /\ WF_vars(ResumeDone(c))
                      /\ WF_vars(GetStreamDone(c))
                      /\ WF_vars(ConnectResolve(c))
                      /\ WF_vars(TransportOpen(c))
                      /\ WF_vars(WorkletLoaded(c))
  /\ WF_vars(CaptureFrame(OpenFrames, Loud))

SpecOpen == Init /\ [][NextOpen]_vars /\ FairOpen

(* ------------------------ guard specification -------------------------- *)
\* start() is called again while a session is starting, connected or stopped
NextGuard ==
  \/ Start(GuardCalls)
  \/ StartWhileActive(GuardIgnored)
  \/ Stop(GuardStops)
  \/ \E c \in Calls : ResumeDone(c)
  \/ \E c \in Calls : GetStreamDone(c)
  \/ \E c \in Calls : ConnectResolve(c)
  \/ \E c \in Calls : TransportOpen(c)
  \/ \E c \in Calls : TransportClose(c)
  \/ \E x \in Calls : WorkletLoaded(x)
  \/ CaptureFrame(GuardFrames, Loud)

SpecGuard == LiveStart /\ [][NextGuard]_vars

(* --------------------- sample rate specification ----------------------- *)
\* the audio scenario on any platform: the context runs at 16 kHz or at the
\* platform's default rate
SpecRate == Init /\ [][NextAudio]_vars

\* the rate of the samples in a payload: both capture paths convert the
\* captured samples to Int16 and send them as they are, so a payload carries
\* samples at the rate of the context that captured them
PayloadRate == platformRate

(* ------------------------ PCM conversion ------------------------------- *)
\* A float sample is counted in halves: n stands for n / 2, so -3..3 stands
\* for -1.5, -1.0, ... , 1.5.
Samples == -3..3

Min(a, b) == IF a <= b THEN a ELSE b
Max(a, b) == IF a >= b THEN a ELSE b

\* Math.max(-1, Math.min(1, x))
ClampSample(n) == Max(-2, Min(2, n))

\* int16[i] = v for the number v = num / den: the fraction is dropped
\* (towards zero) and the integer is kept modulo 2^16, read as signed
StoreInt16(num, den) ==
  LET t == IF num >= 0 THEN num \div den ELSE -((-num) \div den)
      k == t % 65536
  IN  IF k >= 32768 THEN k - 65536 ELSE k

\* createBlob(): int16[i] = s * 32768
CreateBlobSample(n) == StoreInt16(ClampSample(n) * 32768, 2)

\* float32ToInt16(), sendBuffer() of the worklet and onaudioprocess:
\* int16[i] = s < 0 ? s * 0x8000 : s * 0x7FFF
Float32ToInt16Sample(n) ==
  IF ClampSample(n) < 0 THEN StoreInt16(ClampSample(n) * 32768, 2)
  ELSE StoreInt16(ClampSample(n) * 32767, 2)

Converters == {"createBlob", "float32ToInt16", "sendBuffer", "onaudioprocess"}

\* one iteration of the conversion loop of a converter over its input frame
ConvertSample(converter, n) ==
  /\ Len(pcmIn) < MaxSamples
  /\ pcmIn = <<>> \/ pcmOut.by = converter
  /\ pcmIn' = Append(pcmIn, n)
  /\ pcmOut' = [by |-> converter,
                samples |-> Append(pcmOut.samples,
                                   IF converter = "createBlob"
                                     THEN CreateBlobSample(n)
                                     ELSE Float32ToInt16Sample(n))]
  /\ UNCHANGED <<liveVars, ttsVars, rateVars, nIgnored, appVars>>

NextPcm == \E converter \in Converters, n \in Samples : ConvertSample(converter, n)

\* the converters do not depend on the platform: one platform is enough
PcmStart == LiveStart /\ platformWorklet

SpecPcm == PcmStart /\ [][NextPcm]_vars

(***************************************************************************)
(* TTSService (src/services/tts/TTSService.ts): the speech queue, the      *)
(* processQueue() loop with its prefetch slot, and playback.  A handler    *)
(* is a sequence of statements, so the service state is taken as one       *)
(* record (This), the statements are applied to it in order, and the       *)
(* result is written back (Becomes).                                       *)
(***************************************************************************)
This ==
  [queue |-> queue, seg |-> seg, audioContext |-> audioContext,
   currentSource |-> currentSource, isProcessing |-> isProcessing,
   isPaused |-> isPaused, ttsState |-> ttsState,
   prefetchPromise |-> prefetchPromise, prefetchedId |-> prefetchedId,
   pendingTexts |-> pendingTexts, pendingResumes |-> pendingResumes,
   loopPc |-> loopPc, loopSeg |-> loopSeg, loopAwait |-> loopAwait,
   contextState |-> contextState, synth |-> synth, sources |-> sources,
   now |-> now, nTexts |-> nTexts, lastQueued |-> lastQueued,
   played |-> played, errors |-> errors, stopReturned |-> stopReturned]

Becomes(S) ==
  /\ queue' = S.queue
  /\ seg' = S.seg
  /\ audioContext' = S.audioContext
  /\ currentSource' = S.currentSource
  /\ isProcessing' = S.isProcessing
  /\ isPaused' = S.isPaused
  /\ ttsState' = S.ttsState
  /\ prefetchPromise' = S.prefetchPromise
  /\ prefetchedId' = S.prefetchedId
  /\ pendingTexts' = S.pendingTexts
  /\ pendingResumes' = S.pendingResumes
  /\ loopPc' = S.loopPc
  /\ loopSeg' = S.loopSeg
  /\ loopAwait' = S.loopAwait
  /\ contextState' = S.contextState
  /\ synth' = S.synth
  /\ sources' = S.sources
  /\ now' = S.now
  /\ nTexts' = S.nTexts
  /\ lastQueued' = S.lastQueued
  /\ played' = S.played
  /\ errors' = S.errors
  /\ stopReturned' = S.stopReturned
  /\ UNCHANGED <<liveVars, audioVars, nIgnored, appVars>>

\* queue.find(s => s.status === status && s.priority is one of priorities):
\* the first such segment in queue order, or null
FindSegment(q, sg, status, priorities) ==
  LET hits == {i \in 1..Len(q) : /\ sg[q[i]].status = status
                                 /\ sg[q[i]].priority \in priorities}
  IN  IF hits = {} THEN NULL
      ELSE q[CHOOSE i \in hits : \A j \in hits : i <= j]

\* a getNextSegment() that ignores the priority
GetNextSegmentInOrder(q, sg) ==
  LET ready == FindSegment(q, sg, "ready", {"normal", "high"})
  IN  IF ready # NULL THEN ready
      ELSE FindSegment(q, sg, "pending", {"normal", "high"})

\* getNextSegment()
GetNextSegment(q, sg) ==
  LET readyHigh == FindSegment(q, sg, "ready", {"high"})
      ready == FindSegment(q, sg, "ready", {"normal", "high"})
      pendingHigh == FindSegment(q, sg, "pending", {"high"})
      pending == FindSegment(q, sg, "pending", {"normal", "high"})
  IN  IF readyHigh # NULL THEN readyHigh
      ELSE IF ready # NULL THEN ready
      ELSE IF pendingHigh # NULL THEN pendingHigh
      ELSE pending

\* peekNextSegment()
PeekNextSegment(q, sg) == FindSegment(q, sg, "pending", {"normal", "high"})

\* queue.indexOf(segment) and queue.splice(index, 1)
Remove(q, id) == SelectSeq(q, LAMBDA x : x # id)

\* setState()
SetState(S, state) == [S EXCEPT !.ttsState = state]

\* client.generateSpeech(segment.text, voiceId): a new call in flight
GenerateSpeech(S, id, background) ==
  [S EXCEPT !.synth = Append(@, [seg |-> id, text |-> S.seg[id].text,
                                 status |-> "pending",
                                 prefetch |-> background])]

\* processQueue(), from the loop condition to the next await or to the exit
LoopHead(S, l) ==
  IF Len(S.queue) > 0 /\ ~S.isPaused
    THEN LET id == GetNextSegment(S.queue, S.seg)
         IN  IF id = NULL
               THEN [S EXCEPT !.loopPc[l] = "wait", !.loopSeg[l] = NULL,
                              !.loopAwait[l] = NULL]
               ELSE LET S1 == [SetState(S, "generating") EXCEPT
                                 !.seg[id].status = "generating",
                                 !.seg[id].trail = Append(@, "generating"),
                                 !.loopSeg[l] = id]
                    IN  IF S1.prefetchPromise # NULL /\ id = S1.prefetchedId
                          THEN [S1 EXCEPT !.loopPc[l] = "awaitPrefetch",
                                          !.loopAwait[l] = S1.prefetchPromise]
                          ELSE [GenerateSpeech(S1, id, FALSE) EXCEPT
                                  !.loopPc[l] = "synth",
                                  !.loopAwait[l] = Len(S1.synth) + 1]
    ELSE SetState([S EXCEPT !.isProcessing = FALSE, !.loopPc[l] = "idle",
                            !.loopSeg[l] = NULL, !.loopAwait[l] = NULL],
                  "idle")

\* the catch block of processQueue(), then the loop again
CatchError(S, l) ==
  LET id == S.loopSeg[l]
  IN  LoopHead([S EXCEPT !.seg[id].status = "error",
                         !.seg[id].trail = Append(@, "error"),
                         !.errors = Append(@, id),
                         !.queue = Remove(@, id)], l)

\* processQueue() after the audio of its segment has arrived: mark it ready,
\* start the prefetch of the next pending segment, start playAudioBuffer()
AfterSynthesis(S, l) ==
  LET id == S.loopSeg[l]
      S1 == IF S.loopPc[l] = "awaitPrefetch"
              THEN [S EXCEPT !.prefetchPromise = NULL, !.prefetchedId = NULL]
              ELSE S
      S2 == [S1 EXCEPT !.seg[id].status = "ready",
                       !.seg[id].trail = Append(@, "ready")]
      next == PeekNextSegment(S2.queue, S2.seg)
      S3 == IF next # NULL
              THEN [GenerateSpeech(S2, next, TRUE) EXCEPT
                      !.prefetchedId = next,
                      !.prefetchPromise = Len(S2.synth) + 1,
                      !.seg[next].status = "generating",
                      !.seg[next].trail = Append(@, "generating")]
              ELSE S2
      S4 == [SetState(S3, "playing") EXCEPT !.seg[id].status = "playing",
                                            !.seg[id].trail = Append(@, "playing")]
  IN  IF S4.audioContext = NULL
        THEN CatchError(S4, l)
        ELSE [S4 EXCEPT !.loopPc[l] = "decode", !.loopAwait[l] = NULL]

\* a loop that marks the played segment done and leaves it in the queue
AfterPlaybackKeeps(S, l) ==
  LoopHead([S EXCEPT !.seg[S.loopSeg[l]].status = "done",
                     !.seg[S.loopSeg[l]].trail = Append(@, "done")], l)

\* processQueue() after playAudioBuffer() has resolved
AfterPlayback(S, l) ==
  LET id == S.loopSeg[l]
  IN  LoopHead([S EXCEPT !.seg[id].status = "done",
                         !.seg[id].trail = Append(@, "done"),
                         !.queue = Remove(@, id)], l)

\* a processQueue() frame that is not in use
FreeLoop(S) == CHOOSE l \in Loops : S.loopPc[l] = "idle"
LoopAvailable == \E l \in Loops : loopPc[l] = "idle"

\* processQueue() from its call to its first await
ProcessQueue(S) ==
  IF S.isProcessing \/ S.isPaused THEN S
  ELSE LoopHead([S EXCEPT !.isProcessing = TRUE], FreeLoop(S))

\* queue.push(segment) and the shift() of the oldest when over the cap
PushKeepOldest(q, id) == IF Len(q) >= maxQueueSize THEN q ELSE Append(q, id)
PushCapped(q, id) ==
  IF Len(Append(q, id)) > maxQueueSize THEN Tail(Append(q, id))
  ELSE Append(q, id)

\* queueText(), up to `await this.initialize()`
QueueText(limit, text, priority) ==
  /\ nTexts < limit
  /\ IF Trim(text) = <<>>
       THEN Becomes([This EXCEPT !.nTexts = @ + 1, !.stopReturned = FALSE])
       ELSE Becomes([This EXCEPT
              !.nTexts = @ + 1,
              !.stopReturned = FALSE,
              !.audioContext = IF @ = NULL THEN 1 ELSE @,
              !.contextState = IF audioContext = NULL THEN "running" ELSE @,
              !.pendingTexts = Append(@, [text |-> text,
                                          priority |-> priority,
                                          init |-> audioContext = NULL])])

\* a queueText() that coalesces into the last segment whatever its status
QueueTextContinueAnyStatus(k) ==
  /\ k \in 1..Len(pendingTexts)
  /\ \A j \in 1..(k - 1) : pendingTexts[j].init
  /\ isProcessing \/ LoopAvailable
  /\ LET call == pendingTexts[k]
         last == IF queue = <<>> THEN NULL ELSE queue[Len(queue)]
         merge == /\ last # NULL
                  /\ now - seg[last].timestamp < coalesceWindowMs
         S0 == [This EXCEPT
                  !.pendingTexts = SubSeq(@, 1, k - 1) \o SubSeq(@, k + 1, Len(@)),
                  !.lastQueued =
                    [priority |-> call.priority,
                     merged |-> merge, last |-> last,
                     lastStatus |-> IF last = NULL THEN "none"
                                    ELSE seg[last].status,
                     lastAge |-> IF last = NULL THEN 0
                                 ELSE now - seg[last].created]]
     IN  IF merge
           THEN Becomes([S0 EXCEPT
                  !.seg[last].text = @ \o <<" ">> \o Trim(call.text),
                  !.seg[last].timestamp = now])
           ELSE LET id == Len(seg) + 1
                    S1 == [S0 EXCEPT
                             !.seg = Append(@, [text |-> Trim(call.text),
                                                priority |-> call.priority,
                                                timestamp |-> now,
                                                status |-> "pending",
                                                created |-> now,
                                                trail |-> <<"pending">>]),
                             !.queue = PushCapped(@, id)]
                IN  Becomes(IF S1.isProcessing THEN S1 ELSE ProcessQueue(S1))

\* queueText() after initialize(): coalesce into the last segment, or push a
\* new one, drop the oldest over the cap, and start processQueue().  A call
\* that created the context waits for the context to resume and may be
\* overtaken; the others resume in call order.
QueueTextContinue(k) ==
  /\ k \in 1..Len(pendingTexts)
  /\ \A j \in 1..(k - 1) : pendingTexts[j].init
  /\ isProcessing \/ LoopAvailable
  /\ LET call == pendingTexts[k]
         last == IF queue = <<>> THEN NULL ELSE queue[Len(queue)]
         merge == /\ last # NULL
                  /\ seg[last].status = "pending"
                  /\ now - seg[last].timestamp < coalesceWindowMs
         S0 == [This EXCEPT
                  !.pendingTexts = SubSeq(@, 1, k - 1) \o SubSeq(@, k + 1, Len(@)),
                  !.lastQueued =
                    [priority |-> call.priority,
                     merged |-> merge, last |-> last,
                     lastStatus |-> IF last = NULL THEN "none"
                                    ELSE seg[last].status,
                     lastAge |-> IF last = NULL THEN 0
                                 ELSE now - seg[last].created]]
     IN  IF merge
           THEN Becomes([S0 EXCEPT
                  !.seg[last].text = @ \o <<" ">> \o Trim(call.text),
                  !.seg[last].timestamp = now])
           ELSE LET id == Len(seg) + 1
                    S1 == [S0 EXCEPT
                             !.seg = Append(@, [text |-> Trim(call.text),
                                                priority |-> call.priority,
                                                timestamp |-> now,
                                                status |-> "pending",
                                                created |-> now,
                                                trail |-> <<"pending">>]),
                             !.queue = PushCapped(@, id)]
                IN  Becomes(IF S1.isProcessing THEN S1 ELSE ProcessQueue(S1))

\* wait(100) is over
WaitDone(l) ==
  /\ loopPc[l] = "wait"
  /\ Becomes(LoopHead(This, l))

\* the audio the loop is waiting for arrives
SynthResolved(l) ==
  /\ loopPc[l] \in {"synth", "awaitPrefetch"}
  /\ synth[loopAwait[l]].status \in {"pending", "resolved"}
  /\ Becomes(AfterSynthesis(
       [This EXCEPT !.synth[loopAwait[l]].status = "resolved"], l))

\* the synthesis the loop is waiting for fails
SynthRejected(l) ==
  /\ loopPc[l] \in {"synth", "awaitPrefetch"}
  /\ synth[loopAwait[l]].status \in {"pending", "rejected"}
  /\ Becomes(CatchError(
       [This EXCEPT !.synth[loopAwait[l]].status = "rejected"], l))

\* a generateSpeech() call nobody is waiting for settles
PrefetchSettled(p, ok) ==
  /\ p \in 1..Len(synth)
  /\ synth[p].status = "pending"
  /\ \A l \in Loops :
       ~(loopPc[l] \in {"synth", "awaitPrefetch"} /\ loopAwait[l] = p)
  /\ Becomes([This EXCEPT
       !.synth[p].status = IF ok THEN "resolved" ELSE "rejected"])

\* source.stop(): the sound ends now, its onended event follows
StopSource(S, s) ==
  IF s # NULL /\ S.sources[s] = "playing"
    THEN [S EXCEPT !.sources[s] = "stopped"]
    ELSE S

\* playAudioBuffer() after decodeAudioData(): stop the current source,
\* create the new one and start it
DecodeResolved(l) ==
  /\ loopPc[l] = "decode"
  /\ LET S1 == StopSource(This, currentSource)
         s == Len(sources) + 1
     IN  Becomes([S1 EXCEPT !.sources = Append(@, "playing"),
                            !.currentSource = s,
                            !.played = Append(@, loopSeg[l]),
                            !.loopPc[l] = "play",
                            !.loopAwait[l] = s])

\* decodeAudioData() fails
DecodeRejected(l) ==
  /\ loopPc[l] = "decode"
  /\ Becomes(CatchError(This, l))

\* source.onended: after the sound has run out (the context running) or
\* after source.stop(); then the loop that awaits this playback goes on
SourceEnded(s) ==
  /\ s \in 1..Len(sources)
  /\ \/ sources[s] = "stopped"
     \/ sources[s] = "playing" /\ contextState = "running"
  /\ LET S1 == [This EXCEPT !.sources[s] = "ended", !.currentSource = NULL]
         waiting == {l \in Loops : loopPc[l] = "play" /\ loopAwait[l] = s}
     IN  IF waiting = {} THEN Becomes(S1)
         ELSE Becomes(AfterPlayback(S1, CHOOSE l \in waiting : TRUE))

\* a skip() that also takes the playing segment out of the queue
SkipRemoves(S) ==
  [StopSource(S, S.currentSource) EXCEPT
     !.currentSource = NULL,
     !.queue = SelectSeq(@, LAMBDA id : S.seg[id].status # "playing")]

\* skip()
Skip(S) == [StopSource(S, S.currentSource) EXCEPT !.currentSource = NULL]
TtsSkip == Becomes(Skip(This))

\* pause()
TtsPause ==
  Becomes(SetState([This EXCEPT
            !.isPaused = TRUE,
            !.contextState = IF audioContext # NULL /\ @ = "running"
                               THEN "suspended" ELSE @],
          "paused"))

\* resume(), up to `await this.audioContext.resume()` when the context is
\* suspended, to the end otherwise
TtsResume ==
  /\ isProcessing \/ LoopAvailable
  /\ IF audioContext # NULL /\ contextState = "suspended"
       THEN /\ pendingResumes < MaxLoops
            /\ Becomes([This EXCEPT !.isPaused = FALSE,
                                    !.pendingResumes = @ + 1])
       ELSE LET S1 == [This EXCEPT !.isPaused = FALSE]
            IN  Becomes(IF ~S1.isProcessing /\ Len(S1.queue) > 0
                          THEN ProcessQueue(S1) ELSE S1)

\* resume() after the context has resumed
TtsResumeContinue ==
  /\ pendingResumes > 0
  /\ isProcessing \/ LoopAvailable
  /\ LET S1 == [This EXCEPT
                  !.pendingResumes = @ - 1,
                  !.contextState = IF @ = "suspended" THEN "running" ELSE @]
     IN  Becomes(IF ~S1.isProcessing /\ Len(S1.queue) > 0
                   THEN ProcessQueue(S1) ELSE S1)

\* clearQueue()
ClearQueue(S) ==
  [S EXCEPT !.queue = <<>>, !.prefetchPromise = NULL, !.prefetchedId = NULL]

\* a stop() that forgets clearQueue()
StopKeepsQueue(S) ==
  SetState([Skip(S) EXCEPT !.isPaused = FALSE, !.isProcessing = FALSE,
                           !.stopReturned = TRUE], "idle")

\* stop()
StopTts(S) ==
  SetState([ClearQueue(Skip(S)) EXCEPT !.isPaused = FALSE,
                                       !.isProcessing = FALSE,
                                       !.stopReturned = TRUE], "idle")
TtsStop == Becomes(StopTts(This))

\* destroy()
TtsDestroy ==
  Becomes([StopTts(This) EXCEPT
             !.audioContext = NULL,
             !.contextState = IF audioContext # NULL THEN "closed" ELSE @])

\* Date.now() moves on by ms
Tick(limit, ms) ==
  /\ now < limit * ms
  /\ Becomes([This EXCEPT !.now = @ + ms])

(* ------------------------ speech environments -------------------------- *)
\* the texts handed to queueText(): two words and a blank
TtsWords == {<<"A">>, <<"B">>}
TtsBlank == <<" ">>
Priorities == {"normal", "high"}
\* a clock step shorter than the coalescing window
ShortMs == 300

\* the speech specifications start from the constructed services; the capture
\* platform, which TTSService never looks at, is fixed
TtsStart == LiveStart /\ platformWorklet

(* ------------------- speech: stop and restart -------------------------- *)
\* queueText() against stop() while the loop is suspended at an await
NextLoops ==
  \/ \E t \in TtsWords : QueueText(LoopTexts, t, "normal")
  \/ \E k \in 1..LoopTexts : QueueTextContinue(k)
  \/ \E l \in Loops : WaitDone(l)
  \/ \E l \in Loops : SynthResolved(l)
  \/ \E p \in 1..(2 * LoopTexts), ok \in BOOLEAN : PrefetchSettled(p, ok)
  \/ \E l \in Loops : DecodeResolved(l)
  \/ \E s \in 1..LoopTexts : SourceEnded(s)
  \/ TtsStop

SpecLoops == TtsStart /\ [][NextLoops]_vars

(* ------------------- speech: playback order ---------------------------- *)
\* texts of both priorities, queued while the loop synthesizes and plays
NextPlay ==
  \/ \E p \in Priorities : QueueText(PlayTexts, <<"A">>, p)
  \/ \E k \in 1..PlayTexts : QueueTextContinue(k)
  \/ \E l \in Loops : WaitDone(l)
  \/ \E l \in Loops : SynthResolved(l)
  \/ \E p \in 1..(2 * PlayTexts), ok \in BOOLEAN : PrefetchSettled(p, ok)
  \/ \E l \in Loops : DecodeResolved(l)
  \/ \E s \in 1..PlayTexts : SourceEnded(s)
  \/ Tick(PlayTicks, coalesceWindowMs)

SpecPlay == TtsStart /\ [][NextPlay]_vars

(* ------------------- speech: queue overflow ---------------------------- *)
\* more texts than the queue holds, queued one call after the other and
\* spaced by the coalescing window or not, while the loop synthesizes and
\* plays.  A queueText() that found the context ready resumes in a
\* microtask, before any timer, network or audio event (Microtasks); the
\* clock is only compared with the stamp of the last segment of the queue,
\* so it moves on when that stamp is the present time.
Microtasks == \E j \in 1..Len(pendingTexts) : ~pendingTexts[j].init
NextCap ==
  \/ pendingTexts = <<>> /\ QueueText(CapTexts, <<"A">>, "normal")
  \/ \E k \in 1..CapTexts : QueueTextContinue(k)
  \/ ~Microtasks /\ \E l \in Loops : WaitDone(l)
  \/ ~Microtasks /\ \E l \in Loops : SynthResolved(l)
  \/ ~Microtasks /\ \E l \in Loops : DecodeResolved(l)
  \/ ~Microtasks /\ \E s \in 1..CapTexts : SourceEnded(s)
  \/ (~Microtasks /\ queue # <<>> /\ seg[queue[Len(queue)]].timestamp = now)
       /\ Tick(CapTicks, coalesceWindowMs)

SpecCap == TtsStart /\ [][NextCap]_vars

(* ------------------- speech: coalescing -------------------------------- *)
\* texts arriving at intervals shorter than the coalescing window
NextCoalesce ==
  \/ \E t \in {<<"B">>, TtsBlank} : QueueText(CoalesceTexts, t, "normal")
  \/ \E k \in 1..CoalesceTexts : QueueTextContinue(k)
  \/ \E l \in Loops : WaitDone(l)
  \/ \E l \in Loops : SynthResolved(l)
  \/ \E l \in Loops : DecodeResolved(l)
  \/ \E s \in 1..CoalesceTexts : SourceEnded(s)
  \/ Tick(CoalesceTicks, ShortMs)

SpecCoalesce == TtsStart /\ [][NextCoalesce]_vars

(* ----------------------------- the caller ------------------------------ *)
\* Number.prototype.toString(): the decimal digits of a non-negative integer
RECURSIVE NumberToString(_)
NumberToString(n) ==
  IF n < 10 THEN <<n>> ELSE Append(NumberToString(n \div 10), n % 10)

\* the id of a new caption: Date.now().toString()
CaptionId(time) == NumberToString(time)

\* the onTranscription callback the caller hands to the service: a final
\* text becomes a caption appended to the list
OnTranscription(limit, text, isFinal) ==
  /\ Len(captions) < limit
  /\ isFinal
  /\ captions' = Append(captions, [id |-> CaptionId(now), text |-> text,
                                   isFinal |-> TRUE, timestamp |-> now])
  /\ UNCHANGED <<liveVars, ttsVars, audioVars, nIgnored>>

\* the texts of finalized turns
CaptionTexts == {<<"a">>, <<"b">>}

\* finalized turns arrive while the clock runs in milliseconds
NextCaption ==
  \/ \E text \in CaptionTexts : OnTranscription(MaxCaptions, text, TRUE)
  \/ Tick(CaptionTicks, 1)

SpecCaption == TtsStart /\ [][NextCaption]_vars

(* ------------------- speech: the selection ----------------------------- *)
Statuses == {"pending", "generating", "ready", "playing", "done", "error"}

\* getNextSegment() over every queue of up to MaxPick segments: the loop is
\* in wait(100) and the queue holds segments of any status and priority
InitPick ==
  /\ LiveInit
  /\ platformWorklet
  /\ platformRate = targetSampleRate
  /\ PcmInit
  /\ AppInit
  /\ \E n \in 0..MaxPick :
       \E st \in [1..n -> Statuses], pr \in [1..n -> Priorities] :
         /\ seg = [i \in 1..n |-> [text |-> <<"A">>, priority |-> pr[i],
                                   timestamp |-> 0, status |-> st[i],
                                   created |-> 0, trail |-> <<st[i]>>]]
         /\ queue = [i \in 1..n |-> i]
         /\ nTexts = n
  /\ audioContext = 1
  /\ contextState = "running"
  /\ currentSource = NULL
  /\ isProcessing = TRUE
  /\ isPaused = FALSE
  /\ ttsState = "generating"
  /\ prefetchPromise = NULL
  /\ prefetchedId = NULL
  /\ pendingTexts = <<>>
  /\ pendingResumes = 0
  /\ loopPc = [l \in Loops |-> IF l = 1 THEN "wait" ELSE "idle"]
  /\ loopSeg = [l \in Loops |-> NULL]
  /\ loopAwait = [l \in Loops |-> NULL]
  /\ synth = <<>>
  /\ sources = <<>>
  /\ now = 0
  /\ lastQueued = NoQueued
  /\ played = <<>>
  /\ errors = <<>>
  /\ stopReturned = FALSE

NextPick == \E l \in Loops : WaitDone(l)

SpecPick == InitPick /\ [][NextPick]_vars

(* ------------------- speech: failures ---------------------------------- *)
\* synthesis and decoding may fail, for the loop's segment and for the
\* prefetched one
NextFail ==
  \/ QueueText(FailTexts, <<"A">>, "normal")
  \/ \E k \in 1..FailTexts : QueueTextContinue(k)
  \/ \E l \in Loops : WaitDone(l)
  \/ \E l \in Loops : SynthResolved(l)
  \/ \E l \in Loops : SynthRejected(l)
  \/ \E p \in 1..FailTexts, ok \in BOOLEAN : PrefetchSettled(p, ok)
  \/ \E l \in Loops : DecodeResolved(l)
  \/ \E l \in Loops : DecodeRejected(l)
  \/ \E s \in 1..FailTexts : SourceEnded(s)

SpecFail == TtsStart /\ [][NextFail]_vars

(* ------------------- speech: the statuses ------------------------------ *)
\* failures, skip() and stop() against the loop and its prefetch
NextStatus ==
  \/ QueueText(StatusTexts, <<"A">>, "normal")
  \/ \E k \in 1..StatusTexts : QueueTextContinue(k)
  \/ \E l \in Loops : WaitDone(l)
  \/ \E l \in Loops : SynthResolved(l)
  \/ \E l \in Loops : SynthRejected(l)
  \/ \E p \in 1..StatusTexts, ok \in BOOLEAN : PrefetchSettled(p, ok)
  \/ \E l \in Loops : DecodeResolved(l)
  \/ \E l \in Loops : DecodeRejected(l)
  \/ \E s \in 1..StatusTexts : SourceEnded(s)
  \/ TtsSkip
  \/ TtsStop

SpecStatus == TtsStart /\ [][NextStatus]_vars

(* ------------------- speech: progress ---------------------------------- *)
\* texts are queued and then the service is left alone: every synthesis
\* call completes, every decoding and playback completes, every timer fires
NextProgress ==
  \/ QueueText(ProgressTexts, <<"A">>, "normal")
  \/ \E k \in 1..ProgressTexts : QueueTextContinue(k)
  \/ \E l \in Loops : WaitDone(l)
  \/ \E l \in Loops : SynthResolved(l)
  \/ \E p \in 1..ProgressTexts : PrefetchSettled(p, TRUE)
  \/ \E l \in Loops : DecodeResolved(l)
  \/ \E s \in 1..ProgressTexts : SourceEnded(s)

FairProgress ==
  /\ \A k \in 1..ProgressTexts : /\ WF_vars(QueueTextContinue(k))
                                 /\ WF_vars(PrefetchSettled(k, TRUE))
                                 /\ WF_vars(SourceEnded(k))
  /\ \A l \in Loops : /\ WF_vars(WaitDone(l))
                      /\ WF_vars(SynthResolved(l))
                      /\ WF_vars(DecodeResolved(l))

SpecProgress == TtsStart /\ [][NextProgress]_vars /\ FairProgress

(* ------------------- speech: the controls ------------------------------ *)
\* pause(), resume(), skip() and stop() against the loop
NextCtl ==
  \/ QueueText(CtlTexts, <<"A">>, "normal")
  \/ \E k \in 1..CtlTexts : QueueTextContinue(k)
  \/ \E l \in Loops : WaitDone(l)
  \/ \E l \in Loops : SynthResolved(l)
  \/ \E l \in Loops : DecodeResolved(l)
  \/ \E s \in 1..CtlTexts : SourceEnded(s)
  \/ TtsSkip
  \/ TtsPause
  \/ TtsResume
  \/ TtsResumeContinue
  \/ TtsStop

SpecCtl == TtsStart /\ [][NextCtl]_vars

(***************************************************************************)
(*                               Claims                                    *)
(***************************************************************************)
OpenTransports == {c \in Calls : tr[c] \in {"connecting", "open"}}

\* every handle of the service is null, active is false, nothing is buffered
\* and no text is in progress
Released ==
  /\ ~active
  /\ audioBuffer = <<>>
  /\ mediaStream = NULL
  /\ inputAudioContext = NULL
  /\ audioWorkletNode = NULL
  /\ source = NULL
  /\ processor = NULL
  /\ session = NULL
  /\ currentTranscription = <<>>

\* C1: from stop() until the next start(), the service holds no device stream
\* and no transport session, and none it created is open.
C1_StopReleasesEverything ==
  stopped => /\ mediaStream = NULL
             /\ session = NULL
             /\ openStreams = {}
             /\ OpenTransports = {}

\* C2: at any moment at most one device stream and at most one transport
\* session created by the service is open.
C2_SingleStreamAndSession ==
  /\ Cardinality(openStreams) <= 1
  /\ Cardinality(OpenTransports) <= 1

\* C3: a CONNECTED delivered through onStateChange is immediately preceded by
\* CONNECTING.
C3_ConnectedFollowsConnecting ==
  lastState = CONNECTED => prevState = CONNECTING

\* the fatal failures: device acquisition fails (rejected, no audio track, no
\* media devices), the transport connect rejects, the transport calls onerror
FatalFailure ==
  \E c \in Calls :
    \/ \E e \in AllDeviceErrors : GetStreamFail(c, e)
    \/ GetStreamNoAudioTrack(c)
    \/ ResumeNoMediaDevices(c)
    \/ \E e \in AllConnectErrors : ConnectReject(c, e)
    \/ \E e \in AllSocketErrors : TransportError(c, e)

\* C4: every fatal failure emits ERROR with a non-empty message and leaves
\* the service torn down: inactive, buffer empty, every handle null, the
\* stream and the session it held no longer open.
C4_FailureTearsDown ==
  [][FatalFailure =>
       /\ lastState' = ERROR
       /\ lastError' # <<>>
       /\ lastError' # Undefined
       /\ Released'
       /\ (mediaStream # NULL => mediaStream \notin openStreams')
       /\ (session # NULL => session \notin OpenTransports')]_vars

\* C4 witness: an onerror in mid-session (stream held, frames buffered or a
\* session set) has been reported and the service is torn down
C4_Witness ==
  /\ lastState = ERROR
  /\ prevState = CONNECTED
  /\ lastError = <<"Connection", "error">>
  /\ nextFrame > 0
  /\ Released

\* a stop() call is the step that counts it
StopStep == nStops' = nStops + 1

\* the state a stop() leaves behind
JustStopped ==
  /\ Released
  /\ ~audioStreamingStarted
  /\ ~sessionReady
  /\ lastVolume = 0
  /\ lastState = DISCONNECTED

\* C5: every stop(), from any state, delivers onVolume(0) and DISCONNECTED
\* and leaves every handle null, active false and the in-progress text
\* empty; a stop() on a service in the state a stop() left changes none of
\* its fields, streams or transports.
C5_StopIdempotent ==
  [][StopStep =>
       /\ lastVolume' = 0
       /\ lastState' = DISCONNECTED
       /\ Released'
       /\ (JustStopped => UNCHANGED <<fieldVars, tr, openStreams>>)]_vars

\* C5 witness: a second stop() right after the stop() of a session that had
\* captured audio
C5_Witness ==
  /\ nStops = 2
  /\ nextFrame > 0
  /\ lastState = DISCONNECTED
  /\ prevState = DISCONNECTED
  /\ JustStopped

\* C6: no frame waits in the pre-session buffer while a frame captured after
\* it has already been sent.
C6_BufferedDeliveredBeforeLive ==
  \A c \in Calls :
    \A i \in 1..Len(audioBuffer), j \in 1..Len(sent[c]) :
      sent[c][j] < audioBuffer[i]

\* C7: the frames each session received are in capture order, without
\* duplicates.
C7_SentInCaptureOrder ==
  \A c \in Calls :
    \A i, j \in 1..Len(sent[c]) : i < j => sent[c][i] < sent[c][j]

\* C8: the buffer never holds more than maxBufferSize chunks, and it holds
\* the most recent of the chunks pushed into it, in arrival order.
C8_BufferBounded ==
  /\ Len(audioBuffer) <= maxBufferSize
  /\ audioBuffer = LastN(pushed, maxBufferSize)

\* C8 witness: a chunk arrived while the buffer was full
C8_Witness ==
  /\ Len(pushed) > maxBufferSize
  /\ Len(audioBuffer) = maxBufferSize

\* a capture callback is the step that takes the next frame
CaptureStep == nextFrame' = nextFrame + 1

\* C9: once onopen has run for the session (sessionReady), a captured frame
\* is never appended to the buffer.
C9_NoBufferingAfterOpen ==
  [][(CaptureStep /\ sessionReady) => audioBuffer' = audioBuffer]_vars

\* C10: setLanguageConfig() only replaces the stored config (no state change,
\* no transport opened or closed, no instruction changed), the instruction
\* of a transport is the one generated from the config stored when connect
\* was called, and it never changes afterwards.
C10_InstructionFixedAtConnect ==
  /\ [][languageConfig' # languageConfig =>
          UNCHANGED <<inputAudioContext, mediaStream, audioWorkletNode,
                      source, processor, session, active,
                      audioStreamingStarted, sessionReady, audioBuffer,
                      useAudioWorklet, audioSource, currentTranscription,
                      ctlVars, envVars, obsVars, callVars>>]_vars
  /\ [][\A c \in Calls :
          IF tr[c] = "none"
            THEN tr'[c] # "none" =>
                   instr'[c] = GenerateSystemInstruction(languageConfig)
            ELSE instr'[c] = instr[c]]_vars

\* C10 witness: the config was replaced while CONNECTED, and the open
\* session still has the instruction of the old config
C10_Witness ==
  \E c \in Calls :
    /\ session = c
    /\ tr[c] = "open"
    /\ lastState = CONNECTED
    /\ configSetWhile = CONNECTED
    /\ instr[c] = GenerateSystemInstruction(DefaultLanguageConfig)
    /\ languageConfig # DefaultLanguageConfig
    /\ GenerateSystemInstruction(languageConfig) # instr[c]

(* ------------------------ caption reconciler --------------------------- *)
\* the record of the message handled last
LastHandled == handled[Len(handled)]
\* the texts a message carries, in the order handleMessage() looks at them
ShapeTexts(m) ==
  SelectSeq(<<m.text, PartsText(m.parts), m.transcript>>, LAMBDA t : t # <<>>)
\* the onTranscription(text, false) / onTranscription(text, true) calls
Updates(calls) == SelectSeq(calls, LAMBDA c : ~c[2])
Finals(calls) == SelectSeq(calls, LAMBDA c : c[2])
\* the in-progress text when the turnComplete branch of a message is reached
LatestText(h) ==
  IF ShapeTexts(h.message) # <<>>
    THEN ShapeTexts(h.message)[Len(ShapeTexts(h.message))]
    ELSE h.before
\* a message that carries nothing but the turnComplete signal
OnlyTurnComplete(m) ==
  ShapeTexts(m) = <<>> /\ m.turnComplete /\ ~m.interrupted
\* the message handled finalized a caption
Finalized(h) == h.message.turnComplete /\ Trim(LatestText(h)) # <<>>

\* C11: replace-not-append.  After a text-bearing message the text handed to
\* onTranscription(text, false) last is that message's own text, and so is
\* the in-progress text (when the message carries no turn signal), whatever
\* the in-progress text was before the message.
C11_ReplaceNotAppend ==
  handled # <<>> =>
    LET h == LastHandled
        m == h.message
    IN  ShapeTexts(m) # <<>> =>
          /\ Updates(emitted) # <<>>
          /\ Updates(emitted)[Len(Updates(emitted))] = <<LatestText(h), FALSE>>
          /\ (~m.turnComplete /\ ~m.interrupted) => h.after = LatestText(h)

\* two text-bearing messages of one turn, the second replacing the first
C11_Witness ==
  /\ Len(handled) = 2
  /\ handled[1].after = <<"a">>
  /\ handled[2].before = <<"a">>
  /\ handled[2].message = Message(<<>>, <<<<"b">>, <<>>, <<"c">>>>, <<>>, FALSE, FALSE)
  /\ handled[2].after = <<"b", "c">>
  /\ emitted = <<<<<<"b", "c">>, FALSE>>>>

\* C12: finalize-then-reset.  A turnComplete reached with a non-blank
\* in-progress text emits exactly one final caption, carrying that text, and
\* leaves the in-progress text empty; a turnComplete that follows with no
\* update in between emits nothing.
C12_FinalizeThenReset ==
  /\ handled # <<>> /\ Finalized(LastHandled) =>
       /\ Finals(emitted) = <<<<LatestText(LastHandled), TRUE>>>>
       /\ LastHandled.after = <<>>
  /\ (/\ Len(handled) = 2
      /\ Finalized(handled[1])
      /\ handled[2].before = handled[1].after
      /\ OnlyTurnComplete(handled[2].message)) =>
       emitted = <<>>

\* an update, its turnComplete, then a second turnComplete
C12_Witness ==
  /\ Len(handled) = 2
  /\ handled[1].before = <<"a">>
  /\ OnlyTurnComplete(handled[1].message)
  /\ handled[1].after = <<>>
  /\ handled[2].before = <<>>
  /\ OnlyTurnComplete(handled[2].message)
  /\ emitted = <<>>

\* C13: empty-turn suppression.  A turnComplete reached while the
\* in-progress text is empty or all whitespace emits no final caption.
C13_EmptyTurnSuppressed ==
  handled # <<>> =>
    LET h == LastHandled
    IN  (h.message.turnComplete /\ Trim(LatestText(h)) = <<>>) =>
          Finals(emitted) = <<>>

\* a turnComplete arriving while the in-progress text is a single blank
C13_Witness ==
  /\ handled # <<>>
  /\ LastHandled.before = <<" ">>
  /\ OnlyTurnComplete(LastHandled.message)
  /\ emitted = <<>>

\* C14: interruption clears without emission.  A message carrying the
\* interruption signal leaves the in-progress text empty, the interruption
\* itself emits no final caption, and a turnComplete that follows with no new
\* update emits nothing.
C14_InterruptionClears ==
  /\ handled # <<>> /\ LastHandled.message.interrupted =>
       /\ LastHandled.after = <<>>
       /\ ~LastHandled.message.turnComplete => Finals(emitted) = <<>>
       /\ Len(Finals(emitted)) <= 1
  /\ (/\ Len(handled) = 2
      /\ handled[1].message.interrupted
      /\ handled[2].before = handled[1].after
      /\ OnlyTurnComplete(handled[2].message)) =>
       emitted = <<>>

\* an interruption discarding the text "a", then a turnComplete
C14_Witness ==
  /\ Len(handled) = 2
  /\ handled[1].before = <<"a">>
  /\ handled[1].message = Message(<<>>, <<>>, <<>>, FALSE, TRUE)
  /\ handled[1].after = <<>>
  /\ OnlyTurnComplete(handled[2].message)
  /\ emitted = <<>>

\* C15: every shape present in a message is processed, in the order direct
\* text, content parts, output transcription: one update per non-empty
\* shape, the last of them being the in-progress text, and a turnComplete in
\* the same message finalizes exactly that text (when it is not blank).
C15_AllShapesInOrder ==
  handled # <<>> =>
    LET h == LastHandled
        m == h.message
        texts == ShapeTexts(m)
    IN  /\ Updates(emitted) = [i \in 1..Len(texts) |-> <<texts[i], FALSE>>]
        /\ emitted = Updates(emitted) \o Finals(emitted)
        /\ (texts # <<>> /\ m.turnComplete) =>
             Finals(emitted) = IF Trim(texts[Len(texts)]) # <<>>
                                 THEN <<<<texts[Len(texts)], TRUE>>>>
                                 ELSE <<>>

\* a message carrying all three shapes and the turnComplete signal
C15_Witness ==
  /\ handled # <<>>
  /\ LastHandled.message =
       Message(<<"a">>, <<<<"b">>, <<>>, <<"c">>>>, <<"d">>, TRUE, FALSE)
  /\ emitted = <<<<<<"a">>, FALSE>>, <<<<"b", "c">>, FALSE>>,
                 <<<<"d">>, FALSE>>, <<<<"d">>, TRUE>>>>
  /\ LastHandled.after = <<>>

(* --------------------------- speech queue ------------------------------ *)
\* the processQueue() invocations that have not returned
RunningLoops == {l \in Loops : loopPc[l] # "idle"}
\* the generateSpeech() calls of the loop itself that are in flight
ForegroundCalls ==
  {p \in 1..Len(synth) : synth[p].status = "pending" /\ ~synth[p].prefetch}
\* the buffer sources that are sounding
PlayingSources == {s \in 1..Len(sources) : sources[s] = "playing"}

\* C16: at most one processQueue() loop is running, at most one foreground
\* synthesis call is in flight and at most one playback is in progress.
C16_TtsMutualExclusion ==
  /\ Cardinality(RunningLoops) <= 1
  /\ Cardinality(ForegroundCalls) <= 1
  /\ Cardinality(PlayingSources) <= 1

\* the segments whose playback has been started
Played == {played[i] : i \in 1..Len(played)}
\* segment b is due before segment x: it was queued earlier and its priority
\* is not lower
DueBefore(b, x) ==
  /\ b < x
  /\ seg[b].priority = "high" \/ seg[x].priority = "normal"

\* C17: segments are played high priority first and otherwise in queue
\* order: no segment has been played while a segment due before it is still
\* waiting in the queue.
C17_PlayedInPriorityOrder ==
  \A x \in Played :
    \A i \in 1..Len(queue) :
      ~(queue[i] \notin Played /\ DueBefore(queue[i], x))

\* the segments whose synthesis was started by prefetch and whose audio the
\* loop has not taken
Prefetched ==
  {id \in 1..Len(seg) :
     /\ seg[id].status = "generating"
     /\ \E p \in 1..Len(synth) : synth[p].seg = id /\ synth[p].prefetch}

\* C20: at most one segment is being prefetched, and the prefetchedId /
\* prefetchPromise pair refers to it.
C20_OnePrefetch ==
  /\ Cardinality(Prefetched) <= 1
  /\ \A id \in Prefetched :
       /\ prefetchedId = id
       /\ prefetchPromise # NULL
       /\ synth[prefetchPromise].seg = id

\* the segments created so far, in the order they were queued
Created == [i \in 1..Len(seg) |-> i]
\* queueText(), which alone creates segments, has appended one in this step
PushStep == Len(seg') = Len(seg) + 1

\* C18: the queue never holds more than maxQueueSize segments; a segment
\* appended over the cap pushes out the oldest one; and as long as the loop
\* has removed nothing, the queue holds the maxQueueSize most recently
\* queued segments.
C18_OverflowDropsOldest ==
  /\ [](Len(queue) <= maxQueueSize)
  /\ []((\A id \in 1..Len(seg) : seg[id].status \notin {"done", "error"})
          => queue = LastN(Created, maxQueueSize))
  /\ [][PushStep =>
          queue' = LastN(Append(queue, Len(seg')), maxQueueSize)]_vars

\* two segments more than the cap were queued and the two oldest are gone
C18_Witness ==
  /\ Len(seg) = maxQueueSize + 2
  /\ \A id \in 1..Len(seg) : seg[id].status \notin {"done", "error"}
  /\ queue = <<3, 4, 5, 6, 7>>

\* C19: queueText() merges the text into the last queued segment exactly
\* when that segment is still pending and was created less than
\* coalesceWindowMs earlier, and appends a new segment in every other case.
C19_CoalesceWithinWindow ==
  lastQueued # NoQueued =>
    (lastQueued.merged <=>
       /\ lastQueued.last # NULL
       /\ lastQueued.lastStatus = "pending"
       /\ lastQueued.lastAge < coalesceWindowMs)

\* C21: when stop() returns, the source that was current has been stopped
\* and currentSource cleared, the queue and the prefetch slot are empty,
\* isPaused is false and the reported state is idle.
C21_StopResets ==
  [][TtsStop =>
       /\ currentSource' = NULL
       /\ currentSource # NULL => sources'[currentSource] # "playing"
       /\ queue' = <<>>
       /\ prefetchPromise' = NULL
       /\ prefetchedId' = NULL
       /\ ~isPaused'
       /\ ttsState' = "idle"]_vars

\* stop() has been called during a playback with a prefetch under way: the
\* loop still awaits the stopped source, the prefetch call is still there
C21_Witness ==
  /\ \E l \in Loops : /\ loopPc[l] = "play"
                      /\ sources[loopAwait[l]] = "stopped"
  /\ \E p \in 1..Len(synth) : synth[p].prefetch
  /\ ~isProcessing
  /\ queue = <<>>
  /\ currentSource = NULL
  /\ prefetchPromise = NULL
  /\ ttsState = "idle"

\* the data of the segments: everything but the status the loop maintains
SegmentData ==
  [id \in 1..Len(seg) |-> [text |-> seg[id].text,
                           priority |-> seg[id].priority,
                           timestamp |-> seg[id].timestamp]]

\* C22: pause(), resume() and skip() leave the queue as it is: the same
\* segments in the same order with the same text, priority and timestamp.
\* pause() and skip() touch no segment at all; resume() may start the loop,
\* which marks the segment it takes as generating.
C22_ControlsKeepQueue ==
  /\ [][(TtsPause \/ TtsSkip) => (queue' = queue /\ seg' = seg)]_vars
  /\ [][(TtsResume \/ TtsResumeContinue) =>
          (queue' = queue /\ SegmentData' = SegmentData)]_vars

\* a playback has been skipped while paused with a segment left in the queue
C22_Witness ==
  /\ isPaused
  /\ Len(queue) = 2
  /\ \E l \in Loops : /\ loopPc[l] = "play"
                      /\ sources[loopAwait[l]] = "stopped"
  /\ currentSource = NULL

\* the segments whose synthesis has failed
FailedSynthesis ==
  {synth[p].seg : p \in {q \in 1..Len(synth) : synth[q].status = "rejected"}}

\* the loop has nothing in hand: every processQueue() is out of its try block
LoopAtRest == \A l \in Loops : loopPc[l] \in {"idle", "wait"}

\* C23: a failure is absorbed per segment.  Every segment reported through
\* onError is marked error, is out of the queue, was reported once and was
\* synthesized at most once; and once the loop has nothing in hand, no
\* segment whose synthesis failed, prefetched or not, is left in the queue.
C23_FailureAbsorbed ==
  /\ \A i \in 1..Len(errors) :
       /\ seg[errors[i]].status = "error"
       /\ \A j \in 1..Len(queue) : queue[j] # errors[i]
       /\ \A j \in 1..Len(errors) : errors[j] = errors[i] => j = i
       /\ Cardinality({p \in 1..Len(synth) : synth[p].seg = errors[i]}) <= 1
  /\ LoopAtRest =>
       \A j \in 1..Len(queue) : queue[j] \notin FailedSynthesis

\* C24: every float-to-16-bit conversion clamps before scaling, so that no
\* result wraps around: a sample <= -1.0 gives -32768, 0.0 gives 0 and a
\* sample >= 1.0 gives 32767.
C24_PcmClamp ==
  \A i \in 1..Len(pcmIn) :
    /\ pcmIn[i] <= -2 => pcmOut.samples[i] = -32768
    /\ pcmIn[i] = 0 => pcmOut.samples[i] = 0
    /\ pcmIn[i] >= 2 => pcmOut.samples[i] = 32767

\* C25: every audio payload sent carries 16 kHz samples, whatever rate the
\* platform runs the input context at.
C25_PayloadsAt16k ==
  \A c \in Calls : sent[c] # <<>> => PayloadRate = targetSampleRate

\* C26: a start() call made while the service is active changes nothing: no
\* state change is emitted, no device stream or audio context is acquired,
\* no transport is opened, and the buffer and the streaming flags are left
\* as they are.
C26_StartWhileActiveNoop ==
  [][(nIgnored' # nIgnored) =>
       /\ UNCHANGED <<lastState, prevState, lastError, emitted>>
       /\ UNCHANGED <<inputAudioContext, mediaStream, openStreams, pc>>
       /\ UNCHANGED <<session, tr, instr>>
       /\ UNCHANGED <<audioBuffer, audioStreamingStarted, sessionReady>>
       /\ UNCHANGED <<fieldVars, ctlVars, envVars, obsVars, histVars>>]_vars

\* start() was called while active; the frames captured are still in the
\* buffer and the streaming flags are still set
C26_Witness ==
  /\ nIgnored > 0
  /\ active
  /\ sessionReady
  /\ audioStreamingStarted
  /\ Len(audioBuffer) >= 2

\* the class of a segment for the selection: 1 ready and high, 2 ready,
\* 3 pending and high, 4 pending, 5 not selectable
PickClass(s) ==
  IF s.status = "ready" THEN (IF s.priority = "high" THEN 1 ELSE 2)
  ELSE IF s.status = "pending" THEN (IF s.priority = "high" THEN 3 ELSE 4)
  ELSE 5

\* position i of the queue holds the segment the selection must return
IsPick(i) ==
  /\ PickClass(seg[queue[i]]) < 5
  /\ \A j \in 1..Len(queue) :
       \/ PickClass(seg[queue[j]]) > PickClass(seg[queue[i]])
       \/ PickClass(seg[queue[j]]) = PickClass(seg[queue[i]]) /\ i <= j

\* C27: getNextSegment() returns the first segment, in queue order, of the
\* best class present (ready and high, ready, pending and high, pending),
\* and null exactly when the queue holds no ready and no pending segment.
C27_PicksBestClass ==
  [][\A l \in Loops :
       (WaitDone(l) /\ queue # <<>>) =>
         /\ \A i \in 1..Len(queue) : IsPick(i) => loopSeg'[l] = queue[i]
         /\ (\A i \in 1..Len(queue) : ~IsPick(i)) =>
              (loopSeg'[l] = NULL /\ loopPc'[l] = "wait")
         /\ loopPc'[l] = "wait" =>
              \A i \in 1..Len(queue) :
                seg[queue[i]].status \notin {"ready", "pending"}]_vars

\* the selection has passed over a normal pending segment and a played one
\* and has taken the high pending segment behind them
C27_Witness ==
  /\ Len(queue) = 3
  /\ loopPc[1] = "synth"
  /\ loopSeg[1] = 3
  /\ seg[1].status = "pending" /\ seg[1].priority = "normal"
  /\ seg[2].status = "done"
  /\ seg[3].priority = "high"

\* frame f has been captured / has been handed to a transport
Captured(f) == f <= nextFrame
Sent(f) == \E c \in Calls : \E i \in 1..Len(sent[c]) : sent[c][i] = f

\* C28: once onopen has fired for a started session and nothing intervenes,
\* CONNECTED is emitted, the capture callback gets attached, and every frame
\* captured from then on is eventually sent, whether onopen fired before or
\* after connect() resolved.
C28_CapturedEventuallySent ==
  /\ \A c \in Calls :
       [](tr[c] = "open" => sessionReady /\ lastState = CONNECTED)
  /\ \A c \in Calls :
       (tr[c] = "open") ~> (audioWorkletNode # NULL \/ processor # NULL)
  /\ \A f \in 1..OpenFrames :
       (Captured(f) /\ sessionReady) ~> Sent(f)

\* C29: a transport close emits DISCONNECTED and tears the session down
\* exactly when the service is active at that moment; the close that trails
\* a teardown (by stop() or by an error) emits no state change, and so an
\* ERROR state is never replaced by the DISCONNECTED of a trailing close.
C29_TrailingCloseSilent ==
  /\ [][\A c \in Calls : (TransportClose(c) /\ active) =>
          (lastState' = DISCONNECTED /\ Released')]_vars
  /\ [][\A c \in Calls : (TransportClose(c) /\ ~active) =>
          UNCHANGED <<lastState, prevState, lastError, fieldVars>>]_vars
  /\ [][\A c \in Calls : (TransportClose(c) /\ tr[c] = "closing") =>
          UNCHANGED <<lastState, prevState, lastError>>]_vars
  /\ [][\A c \in Calls : (TransportClose(c) /\ lastState = ERROR) =>
          lastState' = ERROR]_vars

\* the status written after status a may be b
StatusStep(a, b) ==
  \/ a = "pending" /\ b = "generating"
  \/ a = "generating" /\ b = "ready"
  \/ a = "ready" /\ b = "playing"
  \/ a = "playing" /\ b = "done"
  \/ a \in {"pending", "generating", "ready", "playing"} /\ b = "error"

\* C30: the statuses written to a segment go forward along pending,
\* generating, ready, playing, done, or jump to error: none goes back, none
\* reaches playing from pending or generating without ready, and a segment
\* marked done or error is out of the queue when the loop iteration that
\* marked it has run.
C30_StatusForward ==
  \A id \in 1..Len(seg) :
    /\ seg[id].trail[1] = "pending"
    /\ seg[id].trail[Len(seg[id].trail)] = seg[id].status
    /\ \A i \in 1..(Len(seg[id].trail) - 1) :
         StatusStep(seg[id].trail[i], seg[id].trail[i + 1])
    /\ seg[id].status \in {"done", "error"} =>
         \A j \in 1..Len(queue) : queue[j] # id

\* one segment has been played to its end after a stop(), another has
\* failed in decoding, a third has been prefetched
C30_Witness ==
  /\ \E id \in 1..Len(seg) :
       seg[id].trail = <<"pending", "generating", "ready", "playing", "done">>
  /\ \E id \in 1..Len(seg) :
       seg[id].trail = <<"pending", "generating", "ready", "playing", "error">>
  /\ \E id \in 1..Len(seg) :
       seg[id].trail = <<"pending", "generating">> /\ \A l \in Loops : loopSeg[l] # id

\* C31: the finalized captions the caller holds have pairwise distinct ids,
\* also when two turns are finalized within the same millisecond.
C31_CaptionIdsDistinct ==
  \A i, j \in 1..Len(captions) : captions[i].id = captions[j].id => i = j

\* C32: after stop() has emitted DISCONNECTED, the service emits no state
\* change until the caller calls start() or stop() again, also when stop()
\* came while a start() was suspended or a transport callback was pending.
C32_SilentAfterStop ==
  [][(stopped /\ nStarts' = nStarts /\ nStops' = nStops) =>
       UNCHANGED <<lastState, prevState, lastError>>]_vars

\* the session has been torn down (stop(), error or close) and start() has
\* not been called since
TornDown == lastState \in {DISCONNECTED, ERROR}

\* C33: after the teardown and until the next start(), no onTranscription
\* callback fires: a server message delivered then produces no update and no
\* final caption and leaves the in-progress text empty.
C33_SilentAfterTeardown ==
  [][\A c \in Calls, m \in LifecycleMessages :
       (OnMessage(c, m) /\ TornDown) =>
         (emitted' = <<>> /\ currentTranscription' = <<>>)]_vars

\* the segments whose synthesis was started by prefetch
PrefetchStarted ==
  {synth[p].seg : p \in {q \in 1..Len(synth) : synth[q].prefetch}}

\* C34: when every synthesis and every playback completes and the service
\* is left alone, every segment in the queue eventually leaves it, the
\* service ends up idle with an empty queue, and every segment whose
\* synthesis was started by prefetch gets played.
C34_TtsProgress ==
  /\ (queue # <<>>) ~> (queue = <<>> /\ ttsState = "idle")
  /\ []<>(PrefetchStarted \subseteq Played)

\* C35: after stop() has returned and until the next queueText(), no
\* playback starts and the reported state stays idle, also when stop() came
\* while a synthesis or a playback of the loop was in flight.  Stated for the
\* steps taken while no earlier queueText() is still waiting to continue.
C35_QuietAfterStop ==
  [][(stopReturned /\ stopReturned' /\ pendingTexts = <<>>) =>
       (played' = played /\ ttsState' = "idle")]_vars


\* C36: once a message carrying turnComplete has been processed the
\* in-progress text is empty, whatever it was before and also when it was
\* only whitespace and produced no caption.
C36_TurnCompleteClears ==
  \A i \in 1..Len(handled) :
    handled[i].message.turnComplete => handled[i].after = <<>>


\* the segments a step takes out of the queue
Removed == {queue[i] : i \in 1..Len(queue)} \ {queue'[j] : j \in 1..Len(queue')}

\* C37: the segment queueText() removes when the queue exceeds its cap is
\* still pending: never one that is generating (in the loop or as prefetch),
\* ready or playing.
C37_OverflowDropsPending ==
  [][PushStep => \A id \in Removed : seg[id].status = "pending"]_vars


\* C38: coalescing preserves priority: a text queued with priority high and
\* merged into the last segment leaves that segment with priority high.
C38_CoalescingKeepsPriority ==
  (lastQueued.merged /\ lastQueued.priority = "high") =>
    seg[lastQueued.last].priority = "high"


\* C39: the text of a segment is not modified once a synthesis of it has been
\* started, in the loop or as prefetch: every synthesis was requested with
\* the text the segment has now, so the audio played for a segment covers
\* all the text queueText() put into it.
C39_TextFixedOnceSynthesized ==
  \A p \in 1..Len(synth) : synth[p].text = seg[synth[p].seg].text

\* a text arrived within the window after the synthesis of the last segment
\* had started and became a segment of its own, a segment holding a merged
\* text has been played, and a prefetch has been started
C39_Witness ==
  /\ \E i \in 1..Len(played) : Len(seg[played[i]].text) > 1
  /\ \E p \in 1..Len(synth) : synth[p].prefetch
  /\ \E id \in 1..Len(seg) :
       /\ id > 1
       /\ seg[id].created - seg[id - 1].created < coalesceWindowMs
       /\ \E p \in 1..Len(synth) : synth[p].seg = id - 1


\* C40: while the service is paused (after pause() and before the next
\* resume() or stop()) the reported state stays paused: the loop does not
\* change it, and no segment starts generating or playing.
C40_PausedStaysPaused ==
  [][(isPaused /\ isPaused') =>
       (ttsState' = "paused" /\ played' = played
          /\ Len(synth') = Len(synth))]_vars

====
